---- MODULE Spec2Model ----
(***************************************************************************)
(* Model of motor_simulator.py: the parameter store, the DC and AC motor   *)
(* engines, the report/rating logic, and the run / save / load / export /  *)
(* reset handlers of MotorSimulator.                                       *)
(*                                                                         *)
(* Numbers.  Python floats are modelled as decimal floating-point numbers  *)
(* with a four-digit mantissa, m * 10^e with 1000 <= |m| <= 9999 (or       *)
(* m = 0, e = 0), results truncated toward zero, together with the IEEE    *)
(* special values the code can produce: +inf, -inf and nan.  A float is a  *)
(* record [k, m, e]: k = 0 finite, k = 1 infinite (m = sign), k = 2 nan.   *)
(* As with binary floats in their normal range, a product is zero only if  *)
(* a factor is, and a quotient only if the dividend is.  Operations on     *)
(* plain Python floats raise on a zero divisor; operations on numpy        *)
(* scalars return inf / nan instead.  Float overflow and underflow (beyond *)
(* about 1e308 and 1e-308) are outside the model's range.                  *)
(***************************************************************************)
EXTENDS Integers, Sequences, FiniteSets, TLC

----------------------------------------------------------------------------
(* Integer helpers.                                                        *)

AbsI(x) == IF x < 0 THEN -x ELSE x

SgnI(x) == IF x < 0 THEN -1 ELSE IF x > 0 THEN 1 ELSE 0

Pow10(n) ==
    CASE n = 0 -> 1
      [] n = 1 -> 10
      [] n = 2 -> 100
      [] n = 3 -> 1000
      [] n = 4 -> 10000
      [] n = 5 -> 100000
      [] n = 6 -> 1000000
      [] n = 7 -> 10000000
      [] n = 8 -> 100000000
      [] OTHER -> 1000000000

\* number of decimal digits of a natural n >= 1
Digits(n) ==
    IF n < 10 THEN 1
    ELSE IF n < 100 THEN 2
    ELSE IF n < 1000 THEN 3
    ELSE IF n < 10000 THEN 4
    ELSE IF n < 100000 THEN 5
    ELSE IF n < 1000000 THEN 6
    ELSE IF n < 10000000 THEN 7
    ELSE IF n < 100000000 THEN 8
    ELSE IF n < 1000000000 THEN 9
    ELSE 10

RECURSIVE SqrtSearch(_, _, _)
\* the largest r in lo..hi with r * r <= a (lo always qualifies)
SqrtSearch(lo, hi, a) ==
    IF lo >= hi THEN lo
    ELSE LET mid == (lo + hi + 1) \div 2
         IN  IF mid * mid <= a THEN SqrtSearch(mid, hi, a)
             ELSE SqrtSearch(lo, mid - 1, a)

\* floor of the square root of a natural below 2^31
ISqrt(a) == SqrtSearch(0, 46340, a)

----------------------------------------------------------------------------
(* Floats: finite values and the IEEE specials.                            *)

\* the float m * 10^e, brought to a four-digit mantissa by truncation
Norm(m, e) ==
    IF m = 0 THEN [k |-> 0, m |-> 0, e |-> 0]
    ELSE LET d == Digits(AbsI(m))
         IN  IF d > 4
             THEN [k |-> 0, m |-> SgnI(m) * (AbsI(m) \div Pow10(d - 4)), e |-> e + (d - 4)]
             ELSE [k |-> 0, m |-> m * Pow10(4 - d), e |-> e - (4 - d)]

\* the integer n (|n| < 2^31) as a float
Num(n) == Norm(n, 0)

\* the decimal n / 10^d as a float, e.g. Dec(15, 1) for 1.5
Dec(n, d) == Norm(n, -d)

PosInf == [k |-> 1, m |-> 1, e |-> 0]

NegInf == [k |-> 1, m |-> -1, e |-> 0]

NaN == [k |-> 2, m |-> 0, e |-> 0]

IsFin(x) == x.k = 0

IsInf(x) == x.k = 1

IsNaN(x) == x.k = 2

IsZero(x) == x.k = 0 /\ x.m = 0

\* sign of a float that is not nan: -1, 0 or 1
Sign(x) == SgnI(x.m)

InfOf(s) == IF s < 0 THEN NegInf ELSE PosInf

Neg(x) == IF IsNaN(x) THEN NaN ELSE [k |-> x.k, m |-> -x.m, e |-> x.e]

\* the sum of two finite floats, x the one with the larger exponent: exact
\* when the exponents differ by at most four digits
AddFin(x, y) ==
    LET diff == x.e - y.e
    IN  IF y.m = 0 THEN x
        ELSE IF x.m = 0 THEN y
        ELSE IF diff <= 4 THEN Norm(x.m * Pow10(diff) + y.m, y.e)
        ELSE IF diff <= 8
             THEN Norm(x.m * 10000 + SgnI(y.m) * (AbsI(y.m) \div Pow10(diff - 4)), x.e - 4)
        ELSE x

Add(x, y) ==
    IF IsNaN(x) \/ IsNaN(y) THEN NaN
    ELSE IF IsInf(x) /\ IsInf(y) THEN (IF x.m = y.m THEN x ELSE NaN)
    ELSE IF IsInf(x) THEN x
    ELSE IF IsInf(y) THEN y
    ELSE IF x.e >= y.e THEN AddFin(x, y) ELSE AddFin(y, x)

Sub(x, y) == Add(x, Neg(y))

Mul(x, y) ==
    IF IsNaN(x) \/ IsNaN(y) THEN NaN
    ELSE IF IsInf(x) \/ IsInf(y)
         THEN (IF Sign(x) * Sign(y) = 0 THEN NaN ELSE InfOf(Sign(x) * Sign(y)))
    ELSE Norm(x.m * y.m, x.e + y.e)

\* x / y for a divisor that is not zero
DivNZ(x, y) ==
    IF IsNaN(x) \/ IsNaN(y) THEN NaN
    ELSE IF IsInf(x) /\ IsInf(y) THEN NaN
    ELSE IF IsInf(x) THEN InfOf(Sign(x) * Sign(y))
    ELSE IF IsInf(y) THEN Num(0)
    ELSE Norm(SgnI(x.m) * SgnI(y.m) * ((AbsI(x.m) * 10000) \div AbsI(y.m)),
              x.e - y.e - 4)

\* numpy scalar division: a zero divisor gives inf or nan (with a
\* RuntimeWarning), never an exception
NpDiv(x, y) ==
    IF IsZero(y)
    THEN (IF IsNaN(x) \/ IsZero(x) THEN NaN ELSE InfOf(Sign(x)))
    ELSE DivNZ(x, y)

\* x ** 2
Sq(x) == Mul(x, x)

\* math.sqrt of a float that is not negative
Sqrt(x) ==
    IF IsNaN(x) THEN NaN
    ELSE IF IsInf(x) THEN PosInf
    ELSE IF x.e % 2 = 0 THEN Norm(ISqrt(x.m * 10000), (x.e - 4) \div 2)
    ELSE Norm(ISqrt(x.m * 100000), (x.e - 5) \div 2)

\* x > y; False when either is nan
Gt(x, y) ==
    IF IsNaN(x) \/ IsNaN(y) THEN FALSE
    ELSE IF IsInf(x) /\ IsInf(y) THEN x.m > y.m
    ELSE IF IsInf(x) THEN x.m > 0
    ELSE IF IsInf(y) THEN y.m < 0
    ELSE Sub(x, y).m > 0

Lt(x, y) == Gt(y, x)

\* variant of >= that is false on equal numbers
Ge_strict(x, y) == Gt(x, y)

\* x >= y; False when either is nan
Ge(x, y) == ~IsNaN(x) /\ ~IsNaN(y) /\ ~Gt(y, x)

\* variant of the guarded quotient that answers inf where the guard fails
GuardedDiv_inf(x, y) == IF Gt(y, Num(0)) THEN DivNZ(x, y) ELSE PosInf

\* "x / y if y > 0 else 0": the guarded quotient of the engines
GuardedDiv(x, y) == IF Gt(y, Num(0)) THEN DivNZ(x, y) ELSE Num(0)

\* max(x, y) of Python: y when y > x, else x
PyMax(x, y) == IF Gt(y, x) THEN y ELSE x

\* min(x, y) of Python: y when y < x, else x
PyMin(x, y) == IF Lt(y, x) THEN y ELSE x

\* variant of int() that rounds a fraction away from zero
Trunc_up(x) ==
    IF x.e >= 0 THEN x
    ELSE IF x.e < -4 THEN Num(SgnI(x.m))
    ELSE Norm(SgnI(x.m) * ((AbsI(x.m) \div Pow10(-x.e)) + 1), 0)

\* int(x) of a finite float: truncation toward zero
Trunc(x) ==
    IF x.e >= 0 THEN x
    ELSE IF x.e < -4 THEN Num(0)
    ELSE Norm(SgnI(x.m) * (AbsI(x.m) \div Pow10(-x.e)), 0)

----------------------------------------------------------------------------
(* State.                                                                  *)

VARIABLES
    param_vars,          \* self.param_vars: key -> text of the input field
    motor_type,          \* self.motor_type: "DC" or "AC"
    simulation_history,  \* self.simulation_history: sequence of bundles
    results_text,        \* self.results_text: what the results panel shows
    charts,              \* the six axes: what is plotted
    dialog,              \* the message box the last button handler showed
    saved_file,          \* the JSON file save_simulation wrote last
    clock,               \* datetime.now(), in seconds
    run_log,             \* every run so far: its inputs, what the engine did, the
                         \* report left in the panel, whether the run completed
    events               \* how many events the main loop has dispatched

vars == <<param_vars, motor_type, simulation_history, results_text, charts,
          dialog, saved_file, clock, run_log, events>>

\* the text of an input field: one that float() parses, or one it rejects
NumText(x) == [num |-> TRUE, v |-> x, s |-> ""]

StrText(s) == [num |-> FALSE, v |-> Num(0), s |-> s]

\* the input fields and their initial texts
create_parameter_inputs ==
    [ rated_voltage       |-> NumText(Num(220)),
      rated_current       |-> NumText(Num(10)),
      rated_power         |-> NumText(Num(2200)),
      rated_speed         |-> NumText(Num(1500)),
      rated_torque        |-> NumText(Num(14)),
      load_torque         |-> NumText(Num(10)),
      frame_size          |-> NumText(Num(100)),
      rotor_inertia       |-> NumText(Dec(1, 3)),
      weight              |-> NumText(Num(15)),
      insulation_class    |-> StrText("F"),
      duty_cycle          |-> NumText(Num(100)),
      ambient_temp        |-> NumText(Num(40)),
      armature_resistance |-> NumText(Dec(15, 1)),
      field_resistance    |-> NumText(Num(100)),
      back_emf_constant   |-> NumText(Dec(8, 1)),
      torque_constant     |-> NumText(Dec(8, 1)),
      frequency           |-> NumText(Num(50)),
      poles               |-> NumText(Num(4)),
      stator_resistance   |-> NumText(Dec(12, 1)),
      rotor_resistance    |-> NumText(Dec(8, 1)),
      magnetizing_current |-> NumText(Num(3)),
      slip                |-> NumText(Num(3)) ]

Keys == DOMAIN create_parameter_inputs

\* variant of get_parameter_value that answers with the default once a
\* bundle has been stored
get_parameter_value_after_run(key, default) ==
    IF key \notin DOMAIN param_vars THEN default
    ELSE IF ~param_vars[key].num \/ simulation_history # <<>> THEN default
    ELSE param_vars[key].v

\* variant of get_parameter_value that answers 0 for text float() rejects
get_parameter_value_zero(key, default) ==
    IF key \notin DOMAIN param_vars THEN default
    ELSE IF ~param_vars[key].num THEN Num(0)
    ELSE param_vars[key].v

\* float(self.param_vars[key].get()), or default on KeyError / ValueError
get_parameter_value(key, default) ==
    IF key \notin DOMAIN param_vars THEN default
    ELSE IF ~param_vars[key].num THEN default
    ELSE param_vars[key].v

----------------------------------------------------------------------------
(* Engines.  An engine call either raises or returns its results dict;     *)
(* locals are the local variables the results dict does not carry.         *)

Raise(exc) == [raised |-> TRUE, exc |-> exc]

\* a numpy array, and a Python list, of the floats in seq
NdArray(seq) == [nd |-> TRUE, data |-> seq]

\* variant of the list building that misses the first sample
PyList_late(seq) == [nd |-> FALSE, data |-> Tail(seq)]

PyList(seq) == [nd |-> FALSE, data |-> seq]

CurveKeys == {"speed_range", "torque_curve", "current_curve", "power_curve", "efficiency_curve"}

Return(results, locals) == [raised |-> FALSE, results |-> results, locals |-> locals]

NumSamples == 50

Pi == Dec(3142, 3)

Sqrt3 == Dec(1732, 3)

\* n * 2 * math.pi / 60
RadPerSec(n) == DivNZ(Mul(Mul(n, Num(2)), Pi), Num(60))

\* np.linspace(start, stop, NumSamples)[i], i from 1
linspace(start, stop, i) ==
    LET step == DivNZ(Sub(stop, start), Num(NumSamples - 1))
    IN  IF i = NumSamples THEN stop
        ELSE Add(start, Mul(Num(i - 1), step))

\* the list a loop builds by appending body[i] in pass i
ListOf(body) == <<>> \o body

\* An engine is run block by block on the frame of its local variables:
\* each block extends the frame with the variables it assigns.

\* variant of the DC engine's reads in which a load torque that does not
\* parse falls back to 14, the initial rated torque
dc_parameters_rated_load ==
    [ V       |-> get_parameter_value("rated_voltage", Num(220)),
      Ra      |-> get_parameter_value("armature_resistance", Dec(15, 1)),
      Rf      |-> get_parameter_value("field_resistance", Num(100)),
      Ke      |-> get_parameter_value("back_emf_constant", Dec(8, 1)),
      Kt      |-> get_parameter_value("torque_constant", Dec(8, 1)),
      T_load  |-> get_parameter_value("load_torque", Num(14)),
      N_rated |-> get_parameter_value("rated_speed", Num(1500)),
      ambient_temp |-> get_parameter_value("ambient_temp", Num(40)) ]

\* simulate_dc_motor, "Get parameters"; ambient_temp, which the code reads
\* further down, is the same there as here
dc_parameters ==
    [ V       |-> get_parameter_value("rated_voltage", Num(220)),
      Ra      |-> get_parameter_value("armature_resistance", Dec(15, 1)),
      Rf      |-> get_parameter_value("field_resistance", Num(100)),
      Ke      |-> get_parameter_value("back_emf_constant", Dec(8, 1)),
      Kt      |-> get_parameter_value("torque_constant", Dec(8, 1)),
      T_load  |-> get_parameter_value("load_torque", Num(10)),
      N_rated |-> get_parameter_value("rated_speed", Num(1500)),
      ambient_temp |-> get_parameter_value("ambient_temp", Num(40)) ]

\* field current, armature voltage, back EMF and armature current at the
\* rated condition (Rf and Ra not zero)
dc_rated(l) ==
    LET Eb_rated == Mul(l.Ke, RadPerSec(l.N_rated))
    IN  [ I_field    |-> DivNZ(l.V, l.Rf),
          V_armature |-> l.V,
          Eb_rated   |-> Eb_rated,
          I_armature |-> DivNZ(Sub(l.V, Eb_rated), l.Ra) ] @@ l

\* developed torque and its friction share
dc_torque(l) ==
    LET T_developed == Mul(l.Kt, l.I_armature)
        T_friction  == Mul(T_developed, Dec(5, 2))
    IN  [ T_developed |-> T_developed,
          T_friction  |-> T_friction,
          T_shaft     |-> Sub(T_developed, T_friction),
          speed_reduction_factor |-> GuardedDiv(l.T_load, T_developed) ] @@ l

\* dc_speed with the speed held at zero where the load would reverse it
dc_speed_clamped(l) ==
    LET N_actual == PyMax(Num(0),
                          Mul(l.N_rated, Sub(Num(1), Mul(l.speed_reduction_factor, Dec(1, 1)))))
    IN  [ N_actual |-> N_actual, omega_actual |-> RadPerSec(N_actual) ] @@ l

\* speed under load
dc_speed(l) ==
    LET N_actual == Mul(l.N_rated, Sub(Num(1), Mul(l.speed_reduction_factor, Dec(1, 1))))
    IN  [ N_actual |-> N_actual, omega_actual |-> RadPerSec(N_actual) ] @@ l

\* power calculations
dc_power(l) ==
    [ P_input         |-> Mul(l.V, l.I_armature),
      P_armature_loss |-> Mul(Sq(l.I_armature), l.Ra),
      P_field_loss    |-> Mul(Sq(l.I_field), l.Rf),
      P_mechanical    |-> Mul(l.T_shaft, l.omega_actual),
      P_output        |-> Mul(l.T_load, l.omega_actual) ] @@ l

\* efficiency, core loss and total losses
dc_losses(l) ==
    LET P_core_loss == Mul(Dec(2, 2), l.P_input)
    IN  [ efficiency   |-> Mul(GuardedDiv(l.P_output, l.P_input), Num(100)),
          P_core_loss  |-> P_core_loss,
          P_total_loss |-> Add(Add(Add(l.P_armature_loss, l.P_field_loss), P_core_loss),
                               Mul(l.T_friction, l.omega_actual)) ] @@ l

\* temperature rise and current density; conductor_area is the constant
\* 0.0001 (> 0): dividing by it is multiplying by 10000
dc_thermal(l) ==
    LET thermal_resistance == Num(5)
        temp_rise == Mul(l.P_total_loss, thermal_resistance)
    IN  [ temp_rise       |-> temp_rise,
          operating_temp  |-> Add(l.ambient_temp, temp_rise),
          current_density |-> Mul(l.I_armature, Num(10000)) ] @@ l

\* speed_range = np.linspace(0, N_rated * 1.2, 50)
dc_speed_range(l) ==
    [ speed_range |-> ListOf([i \in 1..NumSamples |->
                          linspace(Num(0), Mul(l.N_rated, Dec(12, 1)), i)]) ] @@ l

\* variant of the sweep's armature current without the floor at 0
DCSampleCurrent_unfloored(l, n) == DivNZ(Sub(l.V_armature, Mul(l.Ke, RadPerSec(n))), l.Ra)

\* the armature current of one pass of the DC sweep loop, for the speed
\* sample n
DCSampleCurrent(l, n) == PyMax(Num(0), DivNZ(Sub(l.V_armature, Mul(l.Ke, RadPerSec(n))), l.Ra))

\* the rest of the pass, from omega and Ia
DCSampleOut(l, omega, Ia) ==
    LET T     == Mul(l.Kt, Ia)
        P_out == Mul(T, omega)
        P_in  == Mul(l.V, Ia)
        eff   == Mul(GuardedDiv(P_out, P_in), Num(100))
    IN  [torque |-> T, current |-> Ia, power |-> P_out, efficiency |-> PyMin(eff, Num(100))]

\* one pass of the DC sweep loop, for the speed sample n
DCSample(l, n) == DCSampleOut(l, RadPerSec(n), DCSampleCurrent(l, n))

\* the sweep loop: what each pass appends to the four curves
dc_sweep(l) ==
    [ sweep |-> ListOf([i \in 1..NumSamples |-> DCSample(l, l.speed_range[i])]) ] @@ l

\* the results dict, and the locals it does not carry
dc_results(l) ==
    Return(
      [ motor_type      |-> "DC Motor",
        input_voltage   |-> l.V,
        input_current   |-> l.I_armature,
        input_power     |-> l.P_input,
        output_power    |-> l.P_output,
        mechanical_power |-> l.P_mechanical,
        efficiency      |-> l.efficiency,
        speed_rpm       |-> l.N_actual,
        speed_rad_s     |-> l.omega_actual,
        torque          |-> l.T_shaft,
        load_torque     |-> l.T_load,
        developed_torque |-> l.T_developed,
        armature_current |-> l.I_armature,
        field_current   |-> l.I_field,
        back_emf        |-> Mul(l.Ke, l.omega_actual),
        armature_loss   |-> l.P_armature_loss,
        field_loss      |-> l.P_field_loss,
        core_loss       |-> l.P_core_loss,
        mechanical_loss |-> Mul(l.T_friction, l.omega_actual),
        total_loss      |-> l.P_total_loss,
        operating_temp  |-> l.operating_temp,
        temp_rise       |-> l.temp_rise,
        current_density |-> l.current_density,
        power_factor    |-> Num(1),
        speed_range     |-> NdArray(l.speed_range),
        torque_curve    |-> PyList(ListOf([i \in 1..NumSamples |-> l.sweep[i].torque])),
        current_curve   |-> PyList(ListOf([i \in 1..NumSamples |-> l.sweep[i].current])),
        power_curve     |-> PyList(ListOf([i \in 1..NumSamples |-> l.sweep[i].power])),
        efficiency_curve |-> PyList(ListOf([i \in 1..NumSamples |-> l.sweep[i].efficiency])) ],
      [ speed_reduction_factor |-> l.speed_reduction_factor,
        Eb_rated |-> l.Eb_rated ])

\* the body of simulate_dc_motor on its parameters: V / Rf and
\* (V_armature - Eb_rated) / Ra raise on a zero divisor
dc_body(l) ==
    IF IsZero(l.Rf) \/ IsZero(l.Ra) THEN Raise("ZeroDivisionError")
    ELSE dc_results(dc_sweep(dc_speed_range(dc_thermal(dc_losses(dc_power(
             dc_speed(dc_torque(dc_rated(l)))))))))

simulate_dc_motor == dc_body(dc_parameters)

\* variant of the AC parameters that takes the stator resistance from the
\* armature resistance field
ac_parameters_shared ==
    [ V       |-> get_parameter_value("rated_voltage", Num(220)),
      f       |-> get_parameter_value("frequency", Num(50)),
      P_poles |-> Trunc(get_parameter_value("poles", Num(4))),
      Rs      |-> get_parameter_value("armature_resistance", Dec(12, 1)),
      Rr      |-> get_parameter_value("rotor_resistance", Dec(8, 1)),
      Im      |-> get_parameter_value("magnetizing_current", Num(3)),
      slip_percent |-> get_parameter_value("slip", Num(3)),
      T_load  |-> get_parameter_value("load_torque", Num(10)),
      ambient_temp |-> get_parameter_value("ambient_temp", Num(40)) ]

\* simulate_ac_motor, "Get parameters", and ambient_temp as in the DC engine
ac_parameters ==
    [ V       |-> get_parameter_value("rated_voltage", Num(220)),
      f       |-> get_parameter_value("frequency", Num(50)),
      P_poles |-> Trunc(get_parameter_value("poles", Num(4))),
      Rs      |-> get_parameter_value("stator_resistance", Dec(12, 1)),
      Rr      |-> get_parameter_value("rotor_resistance", Dec(8, 1)),
      Im      |-> get_parameter_value("magnetizing_current", Num(3)),
      slip_percent |-> get_parameter_value("slip", Num(3)),
      T_load  |-> get_parameter_value("load_torque", Num(10)),
      ambient_temp |-> get_parameter_value("ambient_temp", Num(40)) ]

\* synchronous speed, slip and rotor speed (P_poles not zero)
ac_speeds(l) ==
    LET Ns == DivNZ(Mul(Num(120), l.f), l.P_poles)
        s  == DivNZ(l.slip_percent, Num(100))
        Nr == Mul(Ns, Sub(Num(1), s))
    IN  [ Ns |-> Ns, omega_sync |-> RadPerSec(Ns), s |-> s, Nr |-> Nr,
          omega_r |-> RadPerSec(Nr) ] @@ l

\* the reactances and the referred rotor resistance (Im * sqrt(3) not zero)
ac_reactances(l) ==
    LET Xm == DivNZ(l.V, Mul(l.Im, Sqrt3))
    IN  [ Xm |-> Xm, X1 |-> Mul(Dec(1, 1), Xm), X2 |-> Mul(Dec(1, 1), Xm),
          Rr_prime |-> IF Gt(l.s, Num(0)) THEN DivNZ(l.Rr, l.s) ELSE PosInf ] @@ l

\* total impedance and phase voltage
ac_impedance(l) ==
    [ Z   |-> Sqrt(Add(Sq(Add(l.Rs, l.Rr_prime)), Sq(Add(l.X1, l.X2)))),
      Vph |-> DivNZ(l.V, Sqrt3) ] @@ l

\* stator current and power factor
ac_current(l) ==
    [ I1 |-> GuardedDiv(l.Vph, l.Z),
      power_factor |-> GuardedDiv(Add(l.Rs, l.Rr_prime), l.Z) ] @@ l

\* input power and air gap power
ac_input(l) ==
    LET P_input == Mul(Mul(Mul(Sqrt3, l.V), l.I1), l.power_factor)
    IN  [ P_input |-> P_input,
          P_ag    |-> Sub(P_input, Mul(Mul(Num(3), Sq(l.I1)), l.Rs)) ] @@ l

\* rotor copper loss, mechanical power and the losses taken from the input
ac_mechanical(l) ==
    LET P_rcl == Mul(l.s, l.P_ag)
    IN  [ P_rcl  |-> P_rcl,
          P_mech |-> Sub(l.P_ag, P_rcl),
          P_core |-> Mul(Dec(3, 2), l.P_input),
          P_fw   |-> Mul(Dec(1, 2), l.P_input) ] @@ l

\* ac_output with the friction and windage loss left in the output power
ac_output_gross(l) ==
    [ T_developed |-> GuardedDiv(l.P_mech, l.omega_r),
      P_output    |-> l.P_mech ] @@ l

\* developed torque and output power
ac_output(l) ==
    [ T_developed |-> GuardedDiv(l.P_mech, l.omega_r),
      P_output    |-> Sub(l.P_mech, l.P_fw) ] @@ l

\* output torque, total losses and efficiency
ac_efficiency(l) ==
    [ T_output   |-> GuardedDiv(l.P_output, l.omega_r),
      P_loss     |-> Sub(l.P_input, l.P_output),
      efficiency |-> Mul(GuardedDiv(l.P_output, l.P_input), Num(100)) ] @@ l

\* temperature calculations
ac_thermal(l) ==
    LET thermal_resistance == Num(6)
        temp_rise == Mul(l.P_loss, thermal_resistance)
    IN  [ temp_rise |-> temp_rise,
          operating_temp |-> Add(l.ambient_temp, temp_rise) ] @@ l

\* slip_range = np.linspace(0.001, 1.0, 50)
ac_slip_range(l) ==
    [ slip_range |-> ListOf([i \in 1..NumSamples |-> linspace(Dec(1, 3), Num(1), i)]) ] @@ l

\* Rr_s of one pass of the AC sweep loop, for the slip sample s_val (a
\* numpy scalar)
ACSampleRotor(l, s_val) == IF Gt(s_val, Num(0)) THEN NpDiv(l.Rr, s_val) ELSE PosInf

\* Z_s of the pass
ACSampleImpedance(l, Rr_s) == Sqrt(Add(Sq(Add(l.Rs, Rr_s)), Sq(Add(l.X1, l.X2))))

\* T_s of the pass
ACSampleTorque(l, s_val) ==
    IF Gt(s_val, Num(0))
    THEN NpDiv(NpDiv(Mul(Mul(Num(3), Sq(l.Vph)), l.Rr), s_val),
               Mul(l.omega_sync,
                   Add(Sq(Add(l.Rs, NpDiv(l.Rr, s_val))), Sq(Add(l.X1, l.X2)))))
    ELSE Num(0)

\* the rest of the pass, from Rr_s, Z_s, I_s and T_s
ACSampleOut(l, s_val, Rr_s, Z_s, I_s, T_s) ==
    LET P_in_s  == Mul(Mul(Mul(Sqrt3, l.V), I_s), NpDiv(Add(l.Rs, Rr_s), Z_s))
        P_out_s == DivNZ(Mul(Mul(Mul(Mul(T_s, l.Ns), Sub(Num(1), s_val)), Num(2)), Pi),
                         Num(60))
        eff_s   == Mul(GuardedDiv(P_out_s, P_in_s), Num(100))
    IN  [torque |-> T_s, current |-> Mul(I_s, Sqrt3), power |-> P_out_s,
         efficiency |-> PyMin(eff_s, Num(100))]

\* the pass once Rr_s and Z_s are known
ACSampleAt(l, s_val, Rr_s, Z_s) ==
    ACSampleOut(l, s_val, Rr_s, Z_s, GuardedDiv(l.Vph, Z_s), ACSampleTorque(l, s_val))

\* the pass once Rr_s is known
ACSampleWith(l, s_val, Rr_s) == ACSampleAt(l, s_val, Rr_s, ACSampleImpedance(l, Rr_s))

\* one pass of the AC sweep loop, for the slip sample s_val
ACSample(l, s_val) == ACSampleWith(l, s_val, ACSampleRotor(l, s_val))

\* speed_range = Ns * (1 - slip_range), and the sweep loop: what each pass
\* appends to the four curves
ac_sweep(l) ==
    [ speed_range |-> ListOf([i \in 1..NumSamples |->
                          Mul(l.Ns, Sub(Num(1), l.slip_range[i]))]),
      sweep |-> ListOf([i \in 1..NumSamples |-> ACSample(l, l.slip_range[i])]) ] @@ l

\* the results dict, and the locals it does not carry
ac_results(l) ==
    Return(
      [ motor_type      |-> "AC Induction Motor (3-Phase)",
        input_voltage   |-> l.V,
        input_current   |-> Mul(l.I1, Sqrt3),
        input_power     |-> l.P_input,
        output_power    |-> l.P_output,
        mechanical_power |-> l.P_mech,
        efficiency      |-> l.efficiency,
        speed_rpm       |-> l.Nr,
        speed_rad_s     |-> l.omega_r,
        synchronous_speed |-> l.Ns,
        slip            |-> Mul(l.s, Num(100)),
        torque          |-> l.T_output,
        load_torque     |-> l.T_load,
        developed_torque |-> l.T_developed,
        frequency       |-> l.f,
        poles           |-> l.P_poles,
        power_factor    |-> l.power_factor,
        stator_current  |-> l.I1,
        stator_loss     |-> Mul(Mul(Num(3), Sq(l.I1)), l.Rs),
        rotor_loss      |-> l.P_rcl,
        core_loss       |-> l.P_core,
        mechanical_loss |-> l.P_fw,
        total_loss      |-> l.P_loss,
        operating_temp  |-> l.operating_temp,
        temp_rise       |-> l.temp_rise,
        air_gap_power   |-> l.P_ag,
        speed_range     |-> NdArray(l.speed_range),
        torque_curve    |-> PyList(ListOf([i \in 1..NumSamples |-> l.sweep[i].torque])),
        current_curve   |-> PyList(ListOf([i \in 1..NumSamples |-> l.sweep[i].current])),
        power_curve     |-> PyList(ListOf([i \in 1..NumSamples |-> l.sweep[i].power])),
        efficiency_curve |-> PyList(ListOf([i \in 1..NumSamples |-> l.sweep[i].efficiency])) ],
      [ Z |-> l.Z, Rr_prime |-> l.Rr_prime, s |-> l.s, X1 |-> l.X1, X2 |-> l.X2,
        Vph |-> l.Vph, omega_sync |-> l.omega_sync, slip_range |-> l.slip_range ])

\* the body of simulate_ac_motor on its parameters: (120 * f) / P_poles and
\* V / (Im * math.sqrt(3)) raise on a zero divisor
ac_body(l) ==
    IF IsZero(l.P_poles) \/ IsZero(Mul(l.Im, Sqrt3)) THEN Raise("ZeroDivisionError")
    ELSE ac_results(ac_sweep(ac_slip_range(ac_thermal(ac_efficiency(ac_output(
             ac_mechanical(ac_input(ac_current(ac_impedance(ac_reactances(
                 ac_speeds(l))))))))))))

\* variant of the AC engine entry that runs the DC engine
simulate_ac_motor_as_dc == simulate_dc_motor

simulate_ac_motor == ac_body(ac_parameters)

----------------------------------------------------------------------------
(* Report and rating.                                                      *)

\* f"{x:.<d>f}": x rounded to d decimals; inf and nan print as themselves
Fmt(x, d) ==
    IF ~IsFin(x) \/ x.e >= -d THEN x
    ELSE IF -d - x.e > 4 THEN Num(0)
    ELSE Norm(SgnI(x.m) * ((AbsI(x.m) + 5 * Pow10(-d - x.e - 1)) \div Pow10(-d - x.e)), -d)

\* str.upper() on the class texts the model types
Upper(s) ==
    CASE s = "a" -> "A"
      [] s = "b" -> "B"
      [] s = "f" -> "F"
      [] s = "h" -> "H"
      [] OTHER -> s

\* variant of the limit lookup that takes class F whatever is typed
temp_limit_class_f == Num(155)

\* variant of the limit lookup that compares the class text as typed
temp_limit_as_typed ==
    LET insulation_class == param_vars["insulation_class"].s
    IN  CASE insulation_class = "A" -> Num(105)
          [] insulation_class = "B" -> Num(130)
          [] insulation_class = "F" -> Num(155)
          [] insulation_class = "H" -> Num(180)
          [] OTHER -> Num(155)

\* temp_limits.get(insulation_class, 155) with the class read from the
\* input field at the time of the call
temp_limit ==
    LET insulation_class == Upper(param_vars["insulation_class"].s)
    IN  CASE insulation_class = "A" -> Num(105)
          [] insulation_class = "B" -> Num(130)
          [] insulation_class = "F" -> Num(155)
          [] insulation_class = "H" -> Num(180)
          [] OTHER -> Num(155)

\* variant of the grade table with the A+ and A breakpoints five points up
determine_grade_shifted(score) ==
    IF score >= 95
    THEN [score |-> score, grade |-> "A+ (Excellent)", assessment |-> "Outstanding performance"]
    ELSE IF score >= 85
    THEN [score |-> score, grade |-> "A (Very Good)", assessment |-> "Very good performance"]
    ELSE IF score >= 70
    THEN [score |-> score, grade |-> "B (Good)", assessment |-> "Good performance"]
    ELSE IF score >= 60
    THEN [score |-> score, grade |-> "C (Acceptable)", assessment |-> "Acceptable performance"]
    ELSE [score |-> score, grade |-> "D (Poor)", assessment |-> "Needs improvement"]

\* "Determine grade": the dict calculate_performance_rating returns
determine_grade(score) ==
    IF score >= 90
    THEN [score |-> score, grade |-> "A+ (Excellent)", assessment |-> "Outstanding performance"]
    ELSE IF score >= 80
    THEN [score |-> score, grade |-> "A (Very Good)", assessment |-> "Very good performance"]
    ELSE IF score >= 70
    THEN [score |-> score, grade |-> "B (Good)", assessment |-> "Good performance"]
    ELSE IF score >= 60
    THEN [score |-> score, grade |-> "C (Acceptable)", assessment |-> "Acceptable performance"]
    ELSE [score |-> score, grade |-> "D (Poor)", assessment |-> "Needs improvement"]

\* variant of the rating whose efficiency table gives nothing below 60
calculate_performance_rating_from_zero(results) ==
    LET eff == results.efficiency
        pf  == results.power_factor
        temp_ratio == DivNZ(results.operating_temp, temp_limit)
        s1 == IF Ge(eff, Num(90)) THEN 40
              ELSE IF Ge(eff, Num(80)) THEN 35
              ELSE IF Ge(eff, Num(70)) THEN 25
              ELSE IF Ge(eff, Num(60)) THEN 15
              ELSE 0
        s2 == IF Ge(pf, Dec(95, 2)) THEN 30
              ELSE IF Ge(pf, Dec(85, 2)) THEN 25
              ELSE IF Ge(pf, Dec(75, 2)) THEN 15
              ELSE 5
        s3 == IF Lt(temp_ratio, Dec(7, 1)) THEN 30
              ELSE IF Lt(temp_ratio, Dec(85, 2)) THEN 20
              ELSE IF Lt(temp_ratio, Num(1)) THEN 10
              ELSE 0
    IN  determine_grade(s1 + s2 + s3)

calculate_performance_rating(results) ==
    LET eff == results.efficiency
        pf  == results.power_factor
        temp == results.operating_temp
        limit == temp_limit
        temp_ratio == DivNZ(temp, limit)
        s1 == IF Ge(eff, Num(90)) THEN 40
              ELSE IF Ge(eff, Num(80)) THEN 35
              ELSE IF Ge(eff, Num(70)) THEN 25
              ELSE IF Ge(eff, Num(60)) THEN 15
              ELSE 5
        s2 == IF Ge(pf, Dec(95, 2)) THEN 30
              ELSE IF Ge(pf, Dec(85, 2)) THEN 25
              ELSE IF Ge(pf, Dec(75, 2)) THEN 15
              ELSE 5
        s3 == IF Lt(temp_ratio, Dec(7, 1)) THEN 30
              ELSE IF Lt(temp_ratio, Dec(85, 2)) THEN 20
              ELSE IF Lt(temp_ratio, Num(1)) THEN 10
              ELSE 0
    IN  determine_grade(s1 + s2 + s3)

\* results[key] for every key of keys succeeds
HasKeys(results, keys) == keys \subseteq DOMAIN results

DCKeys == {"armature_current", "field_current", "back_emf", "armature_loss", "field_loss"}

ACKeys == {"frequency", "synchronous_speed", "slip", "air_gap_power", "stator_loss", "rotor_loss"}

\* the results panel: empty, a full report, the lines written before a
\* KeyError, or the reset notice
EmptyText == [kind |-> "empty"]

ResetText == [kind |-> "reset"]

\* display_results: the text it leaves in the panel, and whether it raised
display_results(results) ==
    LET dc == results.motor_type = "DC Motor"
        head == [ motor_type    |-> results.motor_type,
                  input_voltage |-> Fmt(results.input_voltage, 2),
                  input_current |-> Fmt(results.input_current, 2),
                  input_power   |-> Fmt(results.input_power, 2),
                  power_factor  |-> Fmt(results.power_factor, 3) ]
    IN
    IF ~HasKeys(results, IF dc THEN DCKeys ELSE ACKeys)
    THEN [raised |-> TRUE, exc |-> "KeyError", text |-> [kind |-> "partial", head |-> head]]
    ELSE
    LET limit == temp_limit
        rating == calculate_performance_rating(results)
    IN  [ raised |-> FALSE,
          exc |-> "",
          text |->
            [ kind |-> "report",
              head |-> head,
              branch |-> IF dc THEN "DC" ELSE "AC",
              electrical |->
                IF dc
                THEN << Fmt(results.armature_current, 2), Fmt(results.field_current, 2),
                        Fmt(results.back_emf, 2) >>
                ELSE << Fmt(results.frequency, 1), Fmt(results.synchronous_speed, 1),
                        Fmt(results.slip, 2), Fmt(results.air_gap_power, 2) >>,
              mechanical |->
                << Fmt(results.speed_rpm, 2), Fmt(results.speed_rad_s, 2),
                   Fmt(results.torque, 2), Fmt(results.load_torque, 2),
                   Fmt(results.developed_torque, 2) >>,
              power |->
                << Fmt(results.mechanical_power, 2), Fmt(results.output_power, 2),
                   Fmt(results.efficiency, 2) >>,
              efficiency_status |->
                IF Gt(results.efficiency, Num(85)) THEN "Excellent"
                ELSE IF Gt(results.efficiency, Num(70)) THEN "Good"
                ELSE "Poor - Check Parameters",
              losses |->
                (IF dc
                 THEN << Fmt(results.armature_loss, 2), Fmt(results.field_loss, 2) >>
                 ELSE << Fmt(results.stator_loss, 2), Fmt(results.rotor_loss, 2) >>)
                \o << Fmt(results.core_loss, 2), Fmt(results.mechanical_loss, 2),
                      Fmt(results.total_loss, 2),
                      Fmt(IF Gt(results.input_power, Num(0))
                          THEN Mul(DivNZ(results.total_loss, results.input_power), Num(100))
                          ELSE Num(0), 2) >>,
              thermal |-> << Fmt(results.temp_rise, 2), Fmt(results.operating_temp, 2) >>,
              thermal_status |->
                IF Lt(results.operating_temp, Mul(limit, Dec(8, 1))) THEN "Safe"
                ELSE IF Lt(results.operating_temp, limit) THEN "Caution"
                ELSE "Overheating!",
              limit |-> limit,
              rating |-> rating,
              completed_at |-> clock ] ]

----------------------------------------------------------------------------
(* Charts.                                                                 *)

\* the four slices of the losses pie chart
PieLosses(results) ==
    IF results.motor_type = "DC Motor"
    THEN << results.armature_loss, results.field_loss, results.core_loss,
            results.mechanical_loss >>
    ELSE << results.stator_loss, results.rotor_loss, results.core_loss,
            results.mechanical_loss >>

\* update_visualizations: the outcomes it can have.  A missing key raises
\* KeyError; ax.pie raises ValueError on a negative slice; on slices that
\* sum to zero or hold a nan the outcome depends on the plotting library
\* (it draws with a warning, or raises), so both are possible.
update_visualizations(results) ==
    IF ~HasKeys(results, IF results.motor_type = "DC Motor" THEN DCKeys ELSE ACKeys)
    THEN {"KeyError"}
    ELSE LET x == PieLosses(results)
             sum == Add(Add(Add(x[1], x[2]), x[3]), x[4])
         IN  IF \E i \in 1..4 : Lt(x[i], Num(0)) THEN {"ValueError"}
             ELSE IF IsNaN(sum) \/ IsZero(sum) \/ IsInf(sum) THEN {"ok", "ValueError"}
             ELSE {"ok"}

InitialCharts == [state |-> "initial"]

\* axes cleared and redrawn in part, the pie chart having raised
BrokenCharts == [state |-> "broken"]

DrawnCharts(results) ==
    [state |-> "drawn", speed_rpm |-> results.speed_rpm, efficiency |-> results.efficiency]

ClearedCharts == [state |-> "cleared"]

----------------------------------------------------------------------------
(* Message boxes.                                                          *)

\* a message box: its kind, its title and the fixed start of its message
NoDialog == [kind |-> "none", title |-> "", message |-> ""]

ShowError(title, message) == [kind |-> "error", title |-> title, message |-> message]

\* variant of the warning box shown as an error box
ShowWarning_as_error(title, message) == [kind |-> "error", title |-> title, message |-> message]

ShowWarning(title, message) == [kind |-> "warning", title |-> title, message |-> message]

ShowInfo(title, message) == [kind |-> "info", title |-> title, message |-> message]

----------------------------------------------------------------------------
(* Persistence.                                                            *)

NoFile == [kind |-> "none", data |-> <<>>]

\* a file json.load rejects or that cannot be opened
BadFile == [kind |-> "bad", data |-> <<>>]

JsonFile(data) == [kind |-> "json", data |-> data]

\* sim.copy() with the numpy arrays among the curves turned into lists
\* (save_simulation); what json.dump writes, json.load reads back
DumpSim(sim) ==
    [key \in DOMAIN sim |->
        IF key \in CurveKeys /\ sim[key].nd THEN PyList(sim[key].data) ELSE sim[key]]

\* the curves of a record read from the file turned into numpy arrays
\* (load_simulation)
LoadSim(last_sim) ==
    [key \in DOMAIN last_sim |->
        IF key \in CurveKeys THEN NdArray(last_sim[key].data) ELSE last_sim[key]]

----------------------------------------------------------------------------
(* Bounds.                                                                 *)

\* events the main loop dispatches in one behaviour
MaxEvents == 5

----------------------------------------------------------------------------
(* Handlers.                                                               *)

Init ==
    /\ param_vars = create_parameter_inputs
    /\ motor_type = "DC"
    /\ simulation_history = <<>>
    /\ results_text = EmptyText
    /\ charts = InitialCharts
    /\ dialog = NoDialog
    /\ saved_file = NoFile
    /\ clock = 0
    /\ run_log = <<>>
    /\ events = 0

\* the main loop hands one more event to its handler
Dispatch ==
    /\ events < MaxEvents
    /\ events' = events + 1

\* the fields shown for one motor type only
DCOnlyKeys == {"armature_resistance", "field_resistance", "back_emf_constant",
               "torque_constant"}

ACOnlyKeys == {"frequency", "poles", "stator_resistance", "rotor_resistance",
               "magnetizing_current", "slip"}

\* update_parameter_visibility: the fields on screen under the selected type
VisibleKeys == Keys \ (IF motor_type = "DC" THEN ACOnlyKeys ELSE DCOnlyKeys)

\* the user types text into the input field of key
edit_parameter(key, text) ==
    /\ Dispatch
    /\ key \in VisibleKeys
    /\ param_vars[key] # text
    /\ param_vars' = [param_vars EXCEPT ![key] = text]
    /\ UNCHANGED <<motor_type, simulation_history, results_text, charts, dialog,
                   saved_file, clock, run_log>>

\* the user picks a motor type radio button
select_motor_type(value) ==
    /\ Dispatch
    /\ motor_type # value
    /\ motor_type' = value
    /\ UNCHANGED <<param_vars, simulation_history, results_text, charts, dialog,
                   saved_file, clock, run_log>>

\* variant of the stored entry that keeps the motor_type the engine wrote
StoredBundle_untagged(results, flag, now) ==
    [key \in DOMAIN results \cup {"timestamp"} |->
        IF key = "timestamp" THEN now ELSE results[key]]

\* variant of the appended entry in which a DC run keeps the name the
\* engine wrote
StoredBundle_dc_named(results, flag, now) ==
    [key \in DOMAIN results \cup {"timestamp"} |->
        IF key = "timestamp" THEN now
        ELSE IF key = "motor_type" /\ flag # "DC" THEN flag
        ELSE results[key]]

\* the entry run_simulation appends: the results dict with the timestamp
\* added and motor_type replaced by the flag
StoredBundle(results, flag, now) ==
    [key \in DOMAIN results \cup {"timestamp"} |->
        IF key = "timestamp" THEN now
        ELSE IF key = "motor_type" THEN flag
        ELSE results[key]]

\* the seconds datetime.now() can show when a handler reads it next
Now == {clock, clock + 1}

\* the run just made, added to the log
Logged(call, completed) ==
    run_log' = Append(run_log, [params |-> param_vars, motor_type |-> motor_type,
                                call |-> call, text |-> results_text',
                                completed |-> completed])

\* variant of the except clause for a run that stored its bundle before
\* the failing step
SimulationErrorAfterAppend ==
    /\ dialog' = ShowError("Simulation Error", "Error during simulation")
    /\ simulation_history' = Append(simulation_history, [timestamp |-> clock])
    /\ UNCHANGED clock

\* the except clause of run_simulation: the error is reported and nothing
\* is stored
SimulationError ==
    /\ dialog' = ShowError("Simulation Error", "Error during simulation")
    /\ UNCHANGED <<simulation_history, clock>>

\* variant of the run that puts the initial texts back into the fields
\* when it has reported an error
ParametersRestored ==
    /\ param_vars' = IF dialog'.kind = "error" THEN create_parameter_inputs ELSE param_vars
    /\ UNCHANGED <<motor_type, saved_file>>

\* run_simulation, the engines, display_results and the rating read the
\* fields and the flag and assign neither; no file is written
ParametersRead == UNCHANGED <<param_vars, motor_type, saved_file>>

run_simulation ==
    /\ Dispatch
    /\ \E call \in {IF motor_type = "DC" THEN simulate_dc_motor ELSE simulate_ac_motor} :
           IF call.raised
           THEN /\ results_text' = EmptyText
                /\ UNCHANGED charts
                /\ SimulationError
                /\ Logged(call, FALSE)
           ELSE \E shown \in {display_results(call.results)} :
                /\ results_text' = shown.text
                /\ IF shown.raised
                   THEN /\ UNCHANGED charts
                        /\ SimulationError
                        /\ Logged(call, FALSE)
                   ELSE \E plot \in update_visualizations(call.results) :
                          IF plot # "ok"
                          THEN /\ charts' = BrokenCharts
                               /\ SimulationError
                               /\ Logged(call, FALSE)
                          ELSE \E now \in Now :
                               /\ charts' = DrawnCharts(call.results)
                               /\ dialog' = NoDialog
                               /\ clock' = now
                               /\ simulation_history' =
                                     Append(simulation_history,
                                            StoredBundle(call.results, motor_type, now))
                               /\ Logged(call, TRUE)
    /\ ParametersRead

\* filename: whether the user chose a file; write: "ok", "open" (the file
\* cannot be opened) or "dump" (writing fails part-way)
save_simulation(filename, write) ==
    /\ Dispatch
    /\ IF simulation_history = <<>>
       THEN /\ dialog' = ShowWarning("No Data", "No simulation data to save")
            /\ UNCHANGED saved_file
       ELSE IF ~filename
       THEN /\ dialog' = NoDialog
            /\ UNCHANGED saved_file
       ELSE \E save_data \in {ListOf([i \in 1..Len(simulation_history) |->
                                          DumpSim(simulation_history[i])])} :
                IF write = "ok"
                THEN /\ saved_file' = JsonFile(save_data)
                     /\ dialog' = ShowInfo("Success", "Simulation data saved to")
                ELSE /\ saved_file' = IF write = "open" THEN saved_file ELSE BadFile
                     /\ dialog' = ShowError("Error", "Failed to save file")
    /\ UNCHANGED <<param_vars, motor_type, simulation_history, results_text, charts,
                   clock, run_log>>

\* file: what the chosen file holds (NoFile: the user cancelled)
load_simulation(file) ==
    /\ Dispatch
    /\ IF file.kind = "none"
       THEN /\ dialog' = NoDialog
            /\ UNCHANGED <<results_text, charts>>
       ELSE IF file.kind = "bad"
       THEN /\ dialog' = ShowError("Error", "Failed to load file")
            /\ UNCHANGED <<results_text, charts>>
       ELSE IF Len(file.data) = 0
       THEN /\ dialog' = ShowWarning("Empty File", "The selected file contains no simulation data")
            /\ UNCHANGED <<results_text, charts>>
       ELSE \E last_sim \in {LoadSim(file.data[Len(file.data)])} :
            \E shown \in {display_results(last_sim)} :
                /\ results_text' = shown.text
                /\ IF shown.raised
                   THEN /\ dialog' = ShowError("Error", "Failed to load file")
                        /\ UNCHANGED charts
                   ELSE \E plot \in update_visualizations(last_sim) :
                          IF plot # "ok"
                          THEN /\ charts' = BrokenCharts
                               /\ dialog' = ShowError("Error", "Failed to load file")
                          ELSE /\ charts' = DrawnCharts(last_sim)
                               /\ dialog' = ShowInfo("Success", "Loaded simulation from")
    /\ UNCHANGED <<param_vars, motor_type, simulation_history, saved_file, clock,
                   run_log>>

\* the files the user can pick in the open dialog: none, the file saved
\* last, a file holding an empty list, a file that does not load
LoadChoices == {NoFile, saved_file, JsonFile(<<>>), BadFile}

\* the bundle export_pdf reports and export_excel details
ExportSource == simulation_history[Len(simulation_history)]

\* the box an export handler shows (pandas and fpdf being installed)
ExportDialog(filename, written, done, failed) ==
    IF simulation_history = <<>>
    THEN ShowWarning("No Data", "No simulation data to export")
    ELSE IF ~filename THEN NoDialog
    ELSE IF written THEN ShowInfo("Success", done)
    ELSE ShowError("Error", failed)

\* filename: whether the user chose a file; written: whether writing worked
export_excel(filename, written) ==
    /\ Dispatch
    /\ dialog' = ExportDialog(filename, written, "Data exported to Excel",
                              "Failed to export to Excel")
    /\ UNCHANGED <<param_vars, motor_type, simulation_history, results_text, charts,
                   saved_file, clock, run_log>>

export_pdf(filename, written) ==
    /\ Dispatch
    /\ dialog' = ExportDialog(filename, written, "Report exported to PDF",
                              "Failed to export to PDF")
    /\ UNCHANGED <<param_vars, motor_type, simulation_history, results_text, charts,
                   saved_file, clock, run_log>>

\* variant of reset_parameters that also puts the motor type back to DC
reset_parameters_to_dc(response) ==
    /\ Dispatch
    /\ IF response
       THEN /\ param_vars' = create_parameter_inputs
            /\ results_text' = ResetText
            /\ charts' = ClearedCharts
            /\ motor_type' = "DC"
       ELSE UNCHANGED <<param_vars, results_text, charts, motor_type>>
    /\ dialog' = NoDialog
    /\ UNCHANGED <<simulation_history, saved_file, clock, run_log>>

\* variant of reset_parameters that also empties the history
reset_parameters_clearing(response) ==
    /\ Dispatch
    /\ IF response
       THEN /\ param_vars' = create_parameter_inputs
            /\ results_text' = ResetText
            /\ charts' = ClearedCharts
            /\ simulation_history' = <<>>
       ELSE UNCHANGED <<param_vars, results_text, charts, simulation_history>>
    /\ dialog' = NoDialog
    /\ UNCHANGED <<motor_type, saved_file, clock, run_log>>

\* response: the answer to the askyesno box
reset_parameters(response) ==
    /\ Dispatch
    /\ IF response
       THEN /\ param_vars' = create_parameter_inputs
            /\ results_text' = ResetText
            /\ charts' = ClearedCharts
       ELSE UNCHANGED <<param_vars, results_text, charts>>
    /\ dialog' = NoDialog
    /\ UNCHANGED <<motor_type, simulation_history, saved_file, clock, run_log>>

----------------------------------------------------------------------------
(* The application: the handlers under a user who edits two fields.        *)

\* the texts the user types, per field
Edits ==
    { <<"armature_resistance", NumText(Num(0))>>,
      <<"armature_resistance", NumText(Dec(15, 1))>>,
      <<"slip", NumText(Num(0))>>,
      <<"slip", NumText(Num(3))>> }

Next ==
    \/ \E ed \in Edits : edit_parameter(ed[1], ed[2])
    \/ \E value \in {"DC", "AC"} : select_motor_type(value)
    \/ run_simulation
    \/ \E filename \in BOOLEAN, write \in {"ok", "open", "dump"} :
          save_simulation(filename, write)
    \/ \E file \in LoadChoices : load_simulation(file)
    \/ \E filename \in BOOLEAN, written \in BOOLEAN : export_excel(filename, written)
    \/ \E filename \in BOOLEAN, written \in BOOLEAN : export_pdf(filename, written)
    \/ \E response \in BOOLEAN : reset_parameters(response)

Spec == Init /\ [][Next]_vars

----------------------------------------------------------------------------
(* The engines: one run on each of a range of parameter sets, the fields   *)
(* of the other motor type keeping their initial texts.                    *)

\* a field left blank, and one holding text that float() rejects
Blank == StrText("")

Garbage == StrText("abc")

\* every field blank or unparsable
AllBlank == [key \in Keys |-> IF key = "insulation_class" THEN StrText("F") ELSE Blank]

\* the initial texts with one field made unparsable
OneGarbage == {[create_parameter_inputs EXCEPT ![key] = Garbage] :
                  key \in Keys \ {"insulation_class"}}

\* the texts the user types into the insulation class field
ClassTexts == {StrText("A"), StrText("b"), StrText("F"), StrText("h"), StrText("E"),
               StrText("")}

\* the initial texts with a class typed, at the rated voltage and at none
ClassInputs ==
    {[create_parameter_inputs EXCEPT !.insulation_class = text, !.rated_voltage = v] :
        text \in ClassTexts, v \in {NumText(Num(220)), NumText(Num(0))}}

DCInputs ==
    {[create_parameter_inputs EXCEPT
          !.rated_voltage = v, !.armature_resistance = ra, !.field_resistance = rf,
          !.back_emf_constant = ke, !.torque_constant = kt, !.load_torque = tl] :
       v  \in {NumText(Num(220)), NumText(Num(0)), Garbage},
       ra \in {NumText(Dec(15, 1)), NumText(Num(0)), Blank},
       rf \in {NumText(Num(100)), NumText(Num(0))},
       ke \in {NumText(Dec(8, 1)), NumText(Num(2))},
       kt \in {NumText(Dec(8, 1)), NumText(Num(0))},
       tl \in {NumText(Num(10)), NumText(Num(200)), NumText(Num(1000)), Blank}}

ACInputs ==
    {[create_parameter_inputs EXCEPT
          !.rated_voltage = v, !.frequency = f, !.poles = p, !.stator_resistance = rs,
          !.rotor_resistance = rr, !.magnetizing_current = im, !.slip = sl] :
       v  \in {NumText(Num(220)), NumText(Num(0)), Garbage},
       f  \in {NumText(Num(50)), NumText(Num(0))},
       p  \in {NumText(Num(4)), NumText(Dec(5, 1))},
       rs \in {NumText(Dec(12, 1)), NumText(Num(0))},
       rr \in {NumText(Dec(8, 1)), NumText(Num(0))},
       im \in {NumText(Num(3)), NumText(Num(0))},
       sl \in {NumText(Num(3)), NumText(Num(0)), NumText(Num(99)), NumText(Num(100)),
               NumText(Num(150)), Blank}}

InitEngines ==
    /\ motor_type \in {"DC", "AC"}
    /\ param_vars \in (IF motor_type = "DC" THEN DCInputs ELSE ACInputs)
                         \cup OneGarbage \cup {AllBlank} \cup ClassInputs
    /\ simulation_history = <<>>
    /\ results_text = EmptyText
    /\ charts = InitialCharts
    /\ dialog = NoDialog
    /\ saved_file = NoFile
    /\ clock = 0
    /\ run_log = <<>>
    /\ events = MaxEvents - 1

NextEngines == run_simulation

SpecEngines == InitEngines /\ [][NextEngines]_vars

----------------------------------------------------------------------------
(* Reports: the user opens a file holding one AC bundle, as a run stored   *)
(* it and save_simulation wrote it, whose efficiency, power factor and     *)
(* operating temperature were set by hand, having typed an insulation      *)
(* class or not.                                                           *)

FileEfficiencies ==
    {Num(92), Num(90), Dec(8999, 2), Num(80), Dec(7999, 2), Num(70), Num(60),
     Dec(5999, 2), NaN}

FilePowerFactors ==
    {Dec(97, 2), Dec(95, 2), Dec(9499, 4), Dec(85, 2), Dec(75, 2), Dec(7499, 4), NaN}

FileTemperatures ==
    {Dec(775, 1), Dec(735, 1), Dec(1085, 1), Dec(1105, 1), Num(153), Num(155),
     Num(180), Num(200)}

\* the files: [base EXCEPT ...] for a bundle base read from a saved file
ReportFiles(base) ==
    {JsonFile(<<[base EXCEPT !.efficiency = eff, !.power_factor = pf,
                             !.operating_temp = temp]>>) :
        eff \in FileEfficiencies, pf \in FilePowerFactors, temp \in FileTemperatures}

InitReports ==
    /\ param_vars = create_parameter_inputs
    /\ motor_type = "AC"
    /\ simulation_history = <<>>
    /\ results_text = EmptyText
    /\ charts = InitialCharts
    /\ dialog = NoDialog
    /\ \E base \in {DumpSim(StoredBundle(simulate_ac_motor.results, "AC", 0))} :
          saved_file \in ReportFiles(base)
    /\ clock = 0
    /\ run_log = <<>>
    /\ events = MaxEvents - 2

NextReports ==
    \/ \E text \in ClassTexts : edit_parameter("insulation_class", text)
    \/ load_simulation(saved_file)

SpecReports == InitReports /\ [][NextReports]_vars

----------------------------------------------------------------------------
(* Sessions on the two motor types: the user, having picked a motor type,  *)
(* edits fields of one type (those on screen), switches type, and runs.    *)

\* the texts the user types into the fields shown for one motor type only
TypeEdits ==
    { <<"armature_resistance", NumText(Num(0))>>,
      <<"armature_resistance", NumText(Dec(15, 1))>>,
      <<"field_resistance", NumText(Num(0))>>,
      <<"field_resistance", NumText(Num(100))>>,
      <<"poles", NumText(Dec(5, 1))>>,
      <<"poles", NumText(Num(4))>>,
      <<"magnetizing_current", NumText(Num(0))>>,
      <<"magnetizing_current", NumText(Num(3))>>,
      <<"slip", NumText(Num(0))>>,
      <<"slip", NumText(Num(3))>> }

InitTypes ==
    /\ param_vars = create_parameter_inputs
    /\ motor_type \in {"DC", "AC"}
    /\ simulation_history = <<>>
    /\ results_text = EmptyText
    /\ charts = InitialCharts
    /\ dialog = NoDialog
    /\ saved_file = NoFile
    /\ clock = 0
    /\ run_log = <<>>
    /\ events = 0

NextTypes ==
    \/ \E ed \in TypeEdits : edit_parameter(ed[1], ed[2])
    \/ \E value \in {"DC", "AC"} : select_motor_type(value)
    \/ run_simulation

SpecTypes == InitTypes /\ [][NextTypes]_vars

----------------------------------------------------------------------------
(* Repeated displays of one stored bundle: the user loads one file several *)
(* times and types a class into the insulation class field in between.     *)

\* the files: a saved bundle with two of its scalars set by hand
DisplayFiles(base) ==
    {JsonFile(<<[base EXCEPT !.efficiency = eff, !.power_factor = Dec(97, 2),
                             !.operating_temp = temp]>>) :
        eff \in {Num(92), Num(70)}, temp \in FileTemperatures}

InitDisplays ==
    /\ param_vars = create_parameter_inputs
    /\ motor_type = "AC"
    /\ simulation_history = <<>>
    /\ results_text = EmptyText
    /\ charts = InitialCharts
    /\ dialog = NoDialog
    /\ \E base \in {DumpSim(StoredBundle(simulate_ac_motor.results, "AC", 0))} :
          saved_file \in DisplayFiles(base)
    /\ clock = 0
    /\ run_log = <<>>
    /\ events = MaxEvents - 4

NextDisplays ==
    \/ \E text \in ClassTexts : edit_parameter("insulation_class", text)
    \/ load_simulation(saved_file)

SpecDisplays == InitDisplays /\ [][NextDisplays]_vars

----------------------------------------------------------------------------
(* Properties of the handlers (checked under Spec).                        *)

\* the step is a run: the log has one more entry
RunStep == Len(run_log') = Len(run_log) + 1

\* the run of the step
ThisRun == run_log'[Len(run_log')]

\* the history after the step is the history before it plus one bundle
OneAppended ==
    /\ Len(simulation_history') = Len(simulation_history) + 1
    /\ SubSeq(simulation_history', 1, Len(simulation_history)) = simulation_history

\* the runs that completed, in order
CompletedRuns == SelectSeq(run_log, LAMBDA r : r.completed)

\* C1: a run has exactly one of two outcomes.  Either the engine returns,
\* the full report is shown and the charts are drawn, and the history is
\* the old history followed by exactly one new bundle (the engine's results,
\* stamped); or a step raised, one "Simulation Error" box is shown and the
\* history is exactly the old history.
C1_RunAtomic ==
    [][RunStep =>
        \/ /\ ~ThisRun.call.raised
           /\ results_text'.kind = "report"
           /\ charts'.state = "drawn"
           /\ dialog' = NoDialog
           /\ OneAppended
           /\ \E now \in Now :
                 simulation_history'[Len(simulation_history')] =
                     StoredBundle(ThisRun.call.results, motor_type, now)
        \/ /\ \/ ThisRun.call.raised
              \/ results_text'.kind # "report"
              \/ charts'.state # "drawn"
           /\ dialog' = ShowError("Simulation Error", "Error during simulation")
           /\ simulation_history' = simulation_history]_vars

\* C1 witness: a run failed and left the history empty, and the run after
\* it completed and appended its bundle
C1_Witness ==
    /\ Len(run_log) = 2
    /\ run_log[1].call.raised
    /\ ~run_log[2].call.raised
    /\ Len(simulation_history) = 1
    /\ dialog = NoDialog

\* the history grows by appending only
HistoryGrowsOnly == simulation_history' = simulation_history \/ (RunStep /\ OneAppended)

\* C2: the history is empty at start, its length is the number of completed
\* runs, and no handler (run, save, load, export, reset) removes or changes
\* an entry appended earlier: a step leaves the history as it is or appends
\* one bundle behind the old entries.
C2_AppendOnly ==
    /\ [](Len(simulation_history) = Len(CompletedRuns))
    /\ [][HistoryGrowsOnly]_vars

\* C2 witness: a bundle was appended and saved, then a confirmed reset
\* acted, and the bundle is still in the history
C2_Witness ==
    /\ Len(simulation_history) = 1
    /\ saved_file.kind = "json"
    /\ results_text = ResetText

\* C12: a run, completed or failed, leaves every field's text and the
\* motor-type flag as they were before it.
C12_RunKeepsParameters ==
    [][RunStep => (param_vars' = param_vars /\ motor_type' = motor_type)]_vars

\* C12 witness: a run failed and a run completed, on texts the user had
\* edited, and the fields still hold the texts the last run read
C12_Witness ==
    /\ Len(run_log) = 2
    /\ run_log[1].completed # run_log[2].completed
    /\ param_vars # create_parameter_inputs
    /\ param_vars = run_log[2].params
    /\ motor_type = run_log[2].motor_type

\* the step loads the file saved last, which holds at least one bundle
LoadsSavedFile == saved_file.kind = "json" /\ load_simulation(saved_file)

\* a report without the line "simulation completed at"
Lines(text) == [line \in DOMAIN text \ {"completed_at"} |-> text[line]]

\* C3: saving the history and loading that file succeeds and shows the
\* report the run of the file's last bundle showed: same branch, same
\* scalar lines, same rating (the insulation class is never edited here).
C3_RoundTrip ==
    [][LoadsSavedFile =>
        /\ dialog' = ShowInfo("Success", "Loaded simulation from")
        /\ results_text'.kind = "report"
        /\ Lines(results_text') = Lines(CompletedRuns[Len(saved_file.data)].text)]_vars

\* what save_simulation would write for a history
Dumped(history) == [i \in 1..Len(history) |-> DumpSim(history[i])]

\* C4: after loading a file of n >= 1 bundles the history is the n bundles
\* of the file, in file order, and the bundle the exports use is the last
\* of them.
C4_LoadRestoresHistory ==
    [][LoadsSavedFile =>
        /\ Dumped(simulation_history') = saved_file.data
        /\ DumpSim(ExportSource') = saved_file.data[Len(saved_file.data)]]_vars

\* the step is a save that fails: the file cannot be opened or written
SaveFails ==
    /\ simulation_history # <<>>
    /\ \E write \in {"open", "dump"} : save_simulation(TRUE, write)

\* C17: loading a file that holds an empty list is answered with a warning,
\* not an error; loading a file that cannot be read or parsed is answered
\* with the error "Failed to load file", which is not the simulation error;
\* a failed save is answered with the error "Failed to save file"; and each
\* of the three leaves the history exactly as it was.
C17_PersistenceFailures ==
    [][/\ load_simulation(JsonFile(<<>>))
            => (dialog'.kind = "warning" /\ simulation_history' = simulation_history)
       /\ load_simulation(BadFile)
            => /\ dialog'.kind = "error"
               /\ dialog'.message = "Failed to load file"
               /\ dialog'.title # "Simulation Error"
               /\ simulation_history' = simulation_history
       /\ SaveFails
            => /\ dialog'.kind = "error"
               /\ dialog'.message = "Failed to save file"
               /\ simulation_history' = simulation_history]_vars

\* C17 witness: after a run, a save failed part-way, leaving a file that
\* does not load; loading it failed; the history still holds the bundle
C17_Witness ==
    /\ Len(simulation_history) = 1
    /\ saved_file = BadFile
    /\ dialog.message = "Failed to load file"

\* C18: the history holds one bundle per completed run, in run order; each
\* carries a timestamp, which the engine's results dict does not have, and
\* as motor_type the flag (DC or AC) selected when its run started, which
\* is not what the engine wrote there; the timestamps never decrease along
\* the history.
C18_StampedAndTagged ==
    /\ Len(simulation_history) = Len(CompletedRuns)
    /\ \A i \in DOMAIN simulation_history :
          LET bundle == simulation_history[i]
              run    == CompletedRuns[i]
          IN  /\ "timestamp" \in DOMAIN bundle
              /\ "timestamp" \notin DOMAIN run.call.results
              /\ bundle.motor_type \in {"DC", "AC"}
              /\ bundle.motor_type = run.motor_type
              /\ run.call.results.motor_type # run.motor_type
    /\ \A i, j \in DOMAIN simulation_history :
          i <= j => simulation_history[i].timestamp <= simulation_history[j].timestamp

\* C18 witness: a DC run and then an AC run completed, a second apart, with
\* a failed run between them that stored nothing
C18_Witness ==
    /\ Len(run_log) = 3
    /\ ~run_log[2].completed
    /\ Len(simulation_history) = 2
    /\ simulation_history[1].motor_type = "DC"
    /\ simulation_history[2].motor_type = "AC"
    /\ simulation_history[1].timestamp < simulation_history[2].timestamp

\* C10: two runs with the same parameter texts and the same motor type get
\* the same outcome from the engine (the same exception, or the same
\* scalars and curves), whatever ran, was saved, loaded or reset in between.
C10_Deterministic ==
    \A i, j \in DOMAIN run_log :
        (run_log[i].params = run_log[j].params /\ run_log[i].motor_type = run_log[j].motor_type)
            => run_log[i].call = run_log[j].call

\* C10 witness: two completed runs on the same inputs, stamped at different
\* seconds, with a save between them (the file holds the first bundle only)
C10_Witness ==
    /\ Len(run_log) = 2
    /\ run_log[1].params = run_log[2].params
    /\ run_log[1].motor_type = run_log[2].motor_type
    /\ Len(simulation_history) = 2
    /\ simulation_history[1].timestamp # simulation_history[2].timestamp
    /\ saved_file.kind = "json"
    /\ Len(saved_file.data) = 1

\* the names the engines write into motor_type
EngineNames == {"DC Motor", "AC Induction Motor (3-Phase)"}

\* C23: run_simulation puts the raw flag in place of the engine-written
\* motor_type after display and plotting and before the append.  The report
\* of every completed run shows the engine's name and was laid out on the
\* branch of its flag; every history entry and every saved record has
\* motor_type DC or AC, as flagged at its run, and none has "DC Motor", the
\* value on which display_results and the loss chart take the DC branch.
C23_FlagReplacesName ==
    /\ \A i \in DOMAIN run_log :
          run_log[i].completed =>
             /\ run_log[i].call.results.motor_type \in EngineNames
             /\ run_log[i].text.head.motor_type = run_log[i].call.results.motor_type
             /\ run_log[i].text.branch = run_log[i].motor_type
    /\ Len(simulation_history) = Len(CompletedRuns)
    /\ \A i \in DOMAIN simulation_history :
          /\ simulation_history[i].motor_type = CompletedRuns[i].motor_type
          /\ simulation_history[i].motor_type \notin EngineNames
    /\ \A i \in DOMAIN saved_file.data :
          /\ saved_file.data[i].motor_type \in {"DC", "AC"}
          /\ saved_file.data[i].motor_type # "DC Motor"

\* C23 witness: a DC run completed with "DC Motor" in its report, its
\* history entry says DC, and the history was saved with DC in the record
C23_Witness ==
    /\ Len(run_log) >= 1
    /\ run_log[1].completed
    /\ run_log[1].text.head.motor_type = "DC Motor"
    /\ simulation_history[1].motor_type = "DC"
    /\ saved_file.kind = "json"
    /\ saved_file.data[1].motor_type = "DC"

\* C30: a confirmed reset puts every parameter back to its initial text and
\* leaves the history and the motor-type flag as they were; a declined reset
\* changes nothing; so a save that follows a reset writes one record per
\* completed run and an export still finds the last bundle.
C30_ResetKeepsHistory ==
    [][/\ reset_parameters(TRUE) =>
             /\ \A key \in Keys : param_vars'[key] = create_parameter_inputs[key]
             /\ simulation_history' = simulation_history
             /\ motor_type' = motor_type
             /\ saved_file' = saved_file
       /\ reset_parameters(FALSE) =>
             UNCHANGED <<param_vars, motor_type, simulation_history, results_text,
                         charts, saved_file, clock, run_log>>
       /\ (results_text = ResetText /\ CompletedRuns # <<>>) =>
             /\ save_simulation(TRUE, "ok") =>
                   /\ saved_file'.kind = "json"
                   /\ Len(saved_file'.data) = Len(CompletedRuns)
             /\ export_pdf(TRUE, TRUE) => dialog'.kind = "info"
             /\ export_excel(TRUE, TRUE) => dialog'.kind = "info"]_vars

\* C30 witness: under AC a run with an edited field completed, a confirmed
\* reset put the initial texts back, and the save after it wrote the run
C30_Witness ==
    /\ motor_type = "AC"
    /\ Len(run_log) = 1
    /\ run_log[1].params # create_parameter_inputs
    /\ Len(simulation_history) = 1
    /\ param_vars = create_parameter_inputs
    /\ results_text = ResetText
    /\ dialog.kind = "info"
    /\ saved_file.kind = "json"
    /\ Len(saved_file.data) = 1

----------------------------------------------------------------------------
(* Properties of the engines (checked under SpecEngines).                  *)

\* the number a field's text stands for in params, default where it has none
ValueIn(params, key, default) == IF params[key].num THEN params[key].v ELSE default

\* a field of params holds a number and the number (truncated) is zero
TypedZero(params, key) == params[key].num /\ IsZero(Trunc(params[key].v))

\* no division by a parameter of the run is a division by zero
DivisorsNonZero(run) ==
    IF run.motor_type = "DC"
    THEN ~TypedZero(run.params, "field_resistance")
         /\ ~TypedZero(run.params, "armature_resistance")
    ELSE ~(run.params["poles"].num /\ IsZero(Trunc(run.params["poles"].v)))
         /\ ~(run.params["magnetizing_current"].num
              /\ IsZero(run.params["magnetizing_current"].v))

\* x <= 0, or x is nan: the guard "x > 0" fails
NotPositive(x) == ~Gt(x, Num(0))

DownstreamKeys ==
    {"stator_current", "power_factor", "input_power", "air_gap_power", "rotor_loss",
     "mechanical_power", "torque", "developed_torque", "total_loss", "temp_rise",
     "operating_temp", "efficiency"}

\* C6: an AC run with slip 0 (and no zero pole count or magnetizing
\* current) returns, its effective rotor resistance is inf, and none of the
\* downstream scalars of the bundle is nan.
C6_ZeroSlipDefined ==
    \A i \in DOMAIN run_log :
        LET run == run_log[i]
        IN  (/\ run.motor_type = "AC"
             /\ TypedZero(run.params, "slip")
             /\ DivisorsNonZero(run))
            => /\ ~run.call.raised
               /\ run.call.locals.Rr_prime = PosInf
               /\ \A key \in DownstreamKeys : ~IsNaN(run.call.results[key])

\* the numeric fields an engine reads
DCFields == {"rated_voltage", "armature_resistance", "field_resistance", "back_emf_constant",
             "torque_constant", "load_torque", "rated_speed", "ambient_temp"}

ACFields == {"rated_voltage", "frequency", "poles", "stator_resistance", "rotor_resistance",
             "magnetizing_current", "slip", "load_torque", "ambient_temp"}

\* every field the engine reads holds a positive number, the slip is below
\* 100 percent, and the current drawn is positive
NonDegenerate(run) ==
    /\ \A key \in (IF run.motor_type = "DC" THEN DCFields ELSE ACFields) :
          run.params[key].num /\ Gt(run.params[key].v, Num(0))
    /\ run.motor_type = "AC" => Lt(run.params["slip"].v, Num(100))
    /\ ~run.call.raised
    /\ Gt(run.call.results.input_current, Num(0))

InPercentRange(x) == Ge(x, Num(0)) /\ Ge(Num(100), x)

\* C7: for positive, non-degenerate parameters the efficiency of the bundle
\* and every sample of its efficiency curve lie in 0..100.
C7_EfficiencyBounded ==
    \A i \in DOMAIN run_log :
        LET run == run_log[i]
        IN  NonDegenerate(run)
            => /\ InPercentRange(run.call.results.efficiency)
               /\ \A n \in DOMAIN run.call.results.efficiency_curve.data :
                     InPercentRange(run.call.results.efficiency_curve.data[n])

\* the four curve samples of a bundle at index n
SampleAt(res, n) ==
    [torque |-> res.torque_curve.data[n], current |-> res.current_curve.data[n],
     power |-> res.power_curve.data[n], efficiency |-> res.efficiency_curve.data[n]]

\* C8: every bundle an engine returns has five curves of length 50, and the
\* samples at index n of the four computed curves are the ones computed from
\* the speed (DC) or the slip (AC) that stands at index n of speed_range.
C8_CurvesAligned ==
    \A i \in DOMAIN run_log :
        LET run == run_log[i]
            res == run.call.results
            loc == run.call.locals
            pv  == run.params
        IN  ~run.call.raised =>
            /\ \A key \in CurveKeys : Len(res[key].data) = 50
            /\ \A n \in 1..50 :
                  IF run.motor_type = "DC"
                  THEN SampleAt(res, n) =
                          DCSample([V |-> res.input_voltage,
                                    V_armature |-> res.input_voltage,
                                    Ra |-> ValueIn(pv, "armature_resistance", Dec(15, 1)),
                                    Ke |-> ValueIn(pv, "back_emf_constant", Dec(8, 1)),
                                    Kt |-> ValueIn(pv, "torque_constant", Dec(8, 1))],
                                   res.speed_range.data[n])
                  ELSE /\ res.speed_range.data[n] =
                             Mul(res.synchronous_speed, Sub(Num(1), loc.slip_range[n]))
                       /\ SampleAt(res, n) =
                             ACSample([V |-> res.input_voltage,
                                       Rs |-> ValueIn(pv, "stator_resistance", Dec(12, 1)),
                                       Rr |-> ValueIn(pv, "rotor_resistance", Dec(8, 1)),
                                       X1 |-> loc.X1, X2 |-> loc.X2, Vph |-> loc.Vph,
                                       Ns |-> res.synchronous_speed,
                                       omega_sync |-> loc.omega_sync],
                                      loc.slip_range[n])

\* C8 witness: an AC run returned a bundle whose torque curve has 50
\* samples, the last of them at standstill (speed 0)
C8_Witness ==
    /\ Len(run_log) = 1
    /\ run_log[1].motor_type = "AC"
    /\ ~run_log[1].call.raised
    /\ Len(run_log[1].call.results.torque_curve.data) = 50
    /\ IsZero(run_log[1].call.results.speed_range.data[50])
    /\ Gt(run_log[1].call.results.torque_curve.data[50], Num(0))

\* the fields whose text float() rejects
Unparsable(params) == {key \in Keys \ {"insulation_class"} : ~params[key].num}

\* C9: get_parameter_value answers the caller's default for a key that is
\* absent or whose text does not parse, and a run never fails because of
\* such a field: an engine that raises was dividing by a zero that was
\* typed, and a bundle reports the defaults 220 V, 10 Nm, 50 Hz, 4 poles,
\* 3 % slip and the field current over 100 Ohm for the unparsable fields.
C9_DefaultFallback ==
    /\ \A key \in Keys \cup {"no_such_key"} :
          \A default \in {Num(0), Num(4), Dec(15, 1)} :
             (key \notin DOMAIN param_vars \/ ~param_vars[key].num)
                => get_parameter_value(key, default) = default
    /\ \A i \in DOMAIN run_log :
          LET run == run_log[i]
              res == run.call.results
              pv  == run.params
          IN  IF run.call.raised THEN ~DivisorsNonZero(run)
              ELSE /\ res.input_voltage = ValueIn(pv, "rated_voltage", Num(220))
                   /\ res.load_torque = ValueIn(pv, "load_torque", Num(10))
                   /\ IF run.motor_type = "DC"
                      THEN res.field_current =
                              DivNZ(ValueIn(pv, "rated_voltage", Num(220)),
                                    ValueIn(pv, "field_resistance", Num(100)))
                      ELSE /\ res.frequency = ValueIn(pv, "frequency", Num(50))
                           /\ res.poles = Trunc(ValueIn(pv, "poles", Num(4)))
                           /\ res.slip = Mul(DivNZ(ValueIn(pv, "slip", Num(3)), Num(100)),
                                             Num(100))

\* C9 witness: a run with every numeric field blank completed
C9_Witness ==
    /\ Len(run_log) = 1
    /\ Unparsable(run_log[1].params) = Keys \ {"insulation_class"}
    /\ run_log[1].completed
    /\ Len(simulation_history) = 1

\* C13: an AC run with frequency 50 and 4 poles returns a bundle whose
\* synchronous_speed is exactly 1500, whatever the other fields hold (zero
\* magnetizing current, slip, resistances and voltage included); in general
\* an AC run returns synchronous_speed = 120 * frequency / pole count.
C13_SynchronousSpeed ==
    \A i \in DOMAIN run_log :
        LET run == run_log[i]
            f   == ValueIn(run.params, "frequency", Num(50))
            P_poles == Trunc(ValueIn(run.params, "poles", Num(4)))
        IN  (run.motor_type = "AC" /\ ~IsZero(P_poles)) =>
               /\ ~run.call.raised
               /\ run.call.results.synchronous_speed = DivNZ(Mul(Num(120), f), P_poles)
               /\ (f = Num(50) /\ P_poles = Num(4))
                    => run.call.results.synchronous_speed = Num(1500)

\* (V - Ke * omega) / Ra at the speed n (in RPM)
CurrentAt(V, Ke, Ra, n) == DivNZ(Sub(V, Mul(Ke, RadPerSec(n))), Ra)

\* C20: the armature_current of a DC bundle is (rated voltage - back-EMF
\* constant * rated angular speed) / armature resistance as it comes, so it
\* is negative when the back-EMF exceeds the voltage; every current_curve
\* sample is that expression at the sample's speed, floored at 0, so none
\* is negative; and where the floor acts, the torque, power and efficiency
\* samples are 0.
C20_CurrentAsymmetry ==
    \A i \in DOMAIN run_log :
        LET run == run_log[i]
            res == run.call.results
            V   == ValueIn(run.params, "rated_voltage", Num(220))
            Ke  == ValueIn(run.params, "back_emf_constant", Dec(8, 1))
            Ra  == ValueIn(run.params, "armature_resistance", Dec(15, 1))
            N_rated == ValueIn(run.params, "rated_speed", Num(1500))
        IN  (run.motor_type = "DC" /\ ~run.call.raised) =>
            /\ res.armature_current = CurrentAt(V, Ke, Ra, N_rated)
            /\ (Gt(Mul(Ke, RadPerSec(N_rated)), V) /\ Gt(Ra, Num(0)))
                 => Lt(res.armature_current, Num(0))
            /\ \A n \in 1..NumSamples :
                  LET Ia == CurrentAt(V, Ke, Ra, res.speed_range.data[n])
                  IN  /\ res.current_curve.data[n] = (IF Gt(Ia, Num(0)) THEN Ia ELSE Num(0))
                      /\ ~Lt(res.current_curve.data[n], Num(0))
                      /\ ~Gt(Ia, Num(0))
                           => /\ IsZero(res.torque_curve.data[n])
                              /\ IsZero(res.power_curve.data[n])
                              /\ IsZero(res.efficiency_curve.data[n])

\* C20 witness: a DC bundle whose armature_current is negative, whose
\* current curve starts positive at standstill and is 0 at its last sample
C20_Witness ==
    /\ Len(run_log) = 1
    /\ run_log[1].motor_type = "DC"
    /\ ~run_log[1].call.raised
    /\ Lt(run_log[1].call.results.armature_current, Num(0))
    /\ Gt(run_log[1].call.results.current_curve.data[1], Num(0))
    /\ IsZero(run_log[1].call.results.current_curve.data[NumSamples])
    /\ IsZero(run_log[1].call.results.torque_curve.data[NumSamples])

\* C21: DC speed de-rating.  In every DC run whose engine returned, the
\* speed-reduction factor is load torque / developed torque when the
\* developed torque is positive and 0 otherwise; speed_rpm is rated speed *
\* (1 - factor * 0.1), not clamped: it is the rated speed when the developed
\* torque is not positive, and negative when the load torque exceeds ten
\* times a positive developed torque.
C21_SpeedDerating ==
    \A i \in DOMAIN run_log :
        LET run     == run_log[i]
            res     == run.call.results
            factor  == run.call.locals.speed_reduction_factor
            T_load  == ValueIn(run.params, "load_torque", Num(10))
            N_rated == ValueIn(run.params, "rated_speed", Num(1500))
        IN  run.motor_type = "DC" /\ ~run.call.raised =>
              /\ factor = IF Gt(res.developed_torque, Num(0))
                          THEN DivNZ(T_load, res.developed_torque) ELSE Num(0)
              /\ res.speed_rpm = Mul(N_rated, Sub(Num(1), Mul(factor, Dec(1, 1))))
              /\ NotPositive(res.developed_torque) => res.speed_rpm = N_rated
              /\ Gt(res.developed_torque, Num(0))
                    /\ Gt(T_load, Mul(Num(10), res.developed_torque))
                 => Lt(res.speed_rpm, Num(0))

\* C21 witness: a DC run with load torque 1000 against a positive developed
\* torque returned a negative speed
C21_Witness ==
    /\ Len(run_log) = 1
    /\ run_log[1].motor_type = "DC"
    /\ ~run_log[1].call.raised
    /\ run_log[1].params["load_torque"] = NumText(Num(1000))
    /\ Gt(run_log[1].call.results.developed_torque, Num(0))
    /\ Lt(run_log[1].call.results.speed_rpm, Num(0))

\* C22: AC power chain.  In every AC run whose engine returned,
\* air_gap_power = input_power - 3 * stator_current^2 * stator resistance,
\* rotor_loss = slip fraction * air_gap_power, mechanical_power =
\* air_gap_power - rotor_loss, output_power = mechanical_power - 1% of
\* input_power, total_loss = input_power - output_power, and efficiency =
\* output_power / input_power * 100 when input_power > 0 and 0 otherwise.
C22_PowerChain ==
    \A i \in DOMAIN run_log :
        LET run == run_log[i]
            res == run.call.results
            Rs  == ValueIn(run.params, "stator_resistance", Dec(12, 1))
        IN  run.motor_type = "AC" /\ ~run.call.raised =>
              /\ res.air_gap_power
                   = Sub(res.input_power, Mul(Mul(Num(3), Sq(res.stator_current)), Rs))
              /\ res.rotor_loss = Mul(run.call.locals.s, res.air_gap_power)
              /\ res.mechanical_power = Sub(res.air_gap_power, res.rotor_loss)
              /\ res.output_power
                   = Sub(res.mechanical_power, Mul(Dec(1, 2), res.input_power))
              /\ res.total_loss = Sub(res.input_power, res.output_power)
              /\ res.efficiency
                   = IF Gt(res.input_power, Num(0))
                     THEN Mul(DivNZ(res.output_power, res.input_power), Num(100))
                     ELSE Num(0)

\* C22 witness: an AC run at the initial texts returned with a positive
\* input power, rotor loss and windage loss, and an efficiency above zero
C22_Witness ==
    /\ Len(run_log) = 1
    /\ run_log[1].motor_type = "AC"
    /\ run_log[1].params = create_parameter_inputs
    /\ ~run_log[1].call.raised
    /\ Gt(run_log[1].call.results.input_power, Num(0))
    /\ Gt(run_log[1].call.results.rotor_loss, Num(0))
    /\ Lt(run_log[1].call.results.output_power, run_log[1].call.results.mechanical_power)
    /\ Gt(run_log[1].call.results.efficiency, Num(0))

\* C26: for every bundle and insulation class the rating score is a
\* multiple of 5 from 10 to 100 (the efficiency and the power-factor table
\* each give at least 5), and for a DC bundle, whose power factor is fixed
\* at 1.0, it is at least 35.
C26_ScoreRange ==
    \A i \in DOMAIN run_log :
        run_log[i].text.kind = "report" =>
           /\ run_log[i].text.rating.score \in {5 * n : n \in 2..20}
           /\ run_log[i].motor_type = "DC" =>
                 /\ run_log[i].call.results.power_factor = Num(1)
                 /\ run_log[i].text.rating.score >= 35

\* C26 witness: a DC run below 60 % efficiency and over its temperature
\* limit is rated 5 + 30 + 0 = 35 points
C26_Witness ==
    /\ Len(run_log) = 1
    /\ run_log[1].motor_type = "DC"
    /\ run_log[1].text.kind = "report"
    /\ Lt(run_log[1].call.results.efficiency, Num(60))
    /\ run_log[1].text.rating.score = 35

\* |x| of a float
AbsF(x) == IF Lt(x, Num(0)) THEN Neg(x) ELSE x

\* x and y are the same number up to the rounding of the operations that
\* made them: equal, or finite and no more than 1 % of the larger apart
Close(x, y) ==
    \/ x = y
    \/ /\ IsFin(x) /\ IsFin(y)
       /\ ~Gt(Mul(AbsF(Sub(x, y)), Num(100)), PyMax(AbsF(x), AbsF(y)))

C28_BackEmfOfCurrent ==
    \A i \in DOMAIN run_log :
        LET res == run_log[i].call.results
            Ra  == ValueIn(run_log[i].params, "armature_resistance", Dec(15, 1))
        IN  run_log[i].motor_type = "DC" /\ ~run_log[i].call.raised =>
              Close(Sub(res.input_voltage, res.back_emf), Mul(res.armature_current, Ra))

\* the fallback defaults the engines pass to get_parameter_value, by key
EngineDefaults ==
    [ rated_voltage |-> Num(220), rated_current |-> Num(10),
      armature_resistance |-> Dec(15, 1), field_resistance |-> Num(100),
      back_emf_constant |-> Dec(8, 1), torque_constant |-> Dec(8, 1),
      load_torque |-> Num(10), rated_speed |-> Num(1500),
      rotor_inertia |-> Dec(1, 3), ambient_temp |-> Num(40),
      frequency |-> Num(50), poles |-> Num(4), stator_resistance |-> Dec(12, 1),
      rotor_resistance |-> Dec(8, 1), magnetizing_current |-> Num(3), slip |-> Num(3) ]

\* the number in the input field of key when the fields are created
InitialValue(key) == create_parameter_inputs[key].v

\* what the engine of a motor type returns on the initial texts, which are
\* the texts a confirmed reset leaves in the fields
OnInitialTexts(flag) ==
    IF flag = "DC"
    THEN dc_body([ V |-> InitialValue("rated_voltage"),
                   Ra |-> InitialValue("armature_resistance"),
                   Rf |-> InitialValue("field_resistance"),
                   Ke |-> InitialValue("back_emf_constant"),
                   Kt |-> InitialValue("torque_constant"),
                   T_load |-> InitialValue("load_torque"),
                   N_rated |-> InitialValue("rated_speed"),
                   ambient_temp |-> InitialValue("ambient_temp") ])
    ELSE ac_body([ V |-> InitialValue("rated_voltage"),
                   f |-> InitialValue("frequency"),
                   P_poles |-> InitialValue("poles"),
                   Rs |-> InitialValue("stator_resistance"),
                   Rr |-> InitialValue("rotor_resistance"),
                   Im |-> InitialValue("magnetizing_current"),
                   slip_percent |-> InitialValue("slip"),
                   T_load |-> InitialValue("load_torque"),
                   ambient_temp |-> InitialValue("ambient_temp") ])

\* C29: for every numeric key an engine reads, the default it passes to
\* get_parameter_value is the number the key's input field starts with; so
\* a run with every numeric field blank or unparsable returns, for either
\* motor type, the bundle of a run on the initial texts, which are the
\* texts a confirmed reset puts back.
C29_DefaultsAreInitialTexts ==
    /\ \A key \in DOMAIN EngineDefaults :
          /\ create_parameter_inputs[key].num
          /\ InitialValue(key) = EngineDefaults[key]
    /\ \A i \in DOMAIN run_log :
          Unparsable(run_log[i].params) = Keys \ {"insulation_class"}
             => /\ ~run_log[i].call.raised
                /\ run_log[i].call = OnInitialTexts(run_log[i].motor_type)

\* C29 witness: a DC run with every numeric field blank returned a bundle
\* with the initial load torque 10 and rated speed de-rated from 1500
C29_Witness ==
    /\ Len(run_log) = 1
    /\ run_log[1].motor_type = "DC"
    /\ run_log[1].params = AllBlank
    /\ ~run_log[1].call.raised
    /\ run_log[1].call.results.load_torque = InitialValue("load_torque")
    /\ run_log[1].call.results.input_voltage = InitialValue("rated_voltage")
    /\ Gt(run_log[1].call.results.efficiency, Num(0))

----------------------------------------------------------------------------
(* Properties of sessions on the two motor types (checked under SpecTypes). *)

\* the two runs read the same texts in every field outside keys
AgreeOutside(r1, r2, keys) == \A key \in Keys \ keys : r1.params[key] = r2.params[key]

\* whether the run completes does not hang on the plotting library
PlotDecided(run) ==
    \/ run.call.raised
    \/ run.text.kind # "report"
    \/ Cardinality(update_visualizations(run.call.results)) = 1

\* the two runs got the same outcome from the engine (the same exception or
\* the same results dict), showed the same report and, where the plotting
\* library leaves no choice, both completed or both failed
SameOutcome(r1, r2) ==
    /\ r1.call = r2.call
    /\ Lines(r1.text) = Lines(r2.text)
    /\ (PlotDecided(r1) => r1.completed = r2.completed)

\* C11: two DC runs whose parameter texts differ in AC-only fields at most
\* have the same outcome and the same results, and so do two AC runs whose
\* texts differ in DC-only fields at most.
C11_TypeIsolation ==
    \A i, j \in DOMAIN run_log :
        /\ (run_log[i].motor_type = "DC" /\ run_log[j].motor_type = "DC"
              /\ AgreeOutside(run_log[i], run_log[j], ACOnlyKeys))
             => SameOutcome(run_log[i], run_log[j])
        /\ (run_log[i].motor_type = "AC" /\ run_log[j].motor_type = "AC"
              /\ AgreeOutside(run_log[i], run_log[j], DCOnlyKeys))
             => SameOutcome(run_log[i], run_log[j])

\* C11 witness: two AC runs completed, the second after the user switched
\* to DC, typed a zero field resistance or armature resistance (which makes
\* the DC engine raise) and switched back
C11_Witness ==
    /\ Len(run_log) = 2
    /\ run_log[1].motor_type = "AC" /\ run_log[2].motor_type = "AC"
    /\ \E key \in DCOnlyKeys :
          /\ run_log[1].params[key] # run_log[2].params[key]
          /\ IsZero(run_log[2].params[key].v)
    /\ run_log[1].completed /\ run_log[2].completed

\* the keys the claim names for each engine's bundle
DCSpecificKeys == {"back_emf", "field_current", "armature_current", "armature_loss",
                   "field_loss"}

ACSpecificKeys == {"slip", "synchronous_speed", "air_gap_power", "stator_loss",
                   "rotor_loss"}

\* C19: a run made with the flag DC gets the DC engine's outcome: if a
\* bundle, one named "DC Motor" with all the DC-specific keys and none of
\* the AC-specific ones; a run made with the other flag gets the AC
\* engine's: if a bundle, one named "AC Induction Motor (3-Phase)" with all
\* the AC-specific keys and none of the DC-specific ones.
C19_EngineByFlag ==
    \A i \in DOMAIN run_log :
        LET run == run_log[i]
        IN  ~run.call.raised =>
              IF run.motor_type = "DC"
              THEN /\ run.call.results.motor_type = "DC Motor"
                   /\ DCSpecificKeys \subseteq DOMAIN run.call.results
                   /\ ACSpecificKeys \cap DOMAIN run.call.results = {}
              ELSE /\ run.call.results.motor_type = "AC Induction Motor (3-Phase)"
                   /\ ACSpecificKeys \subseteq DOMAIN run.call.results
                   /\ DCSpecificKeys \cap DOMAIN run.call.results = {}

\* C19 witness: in one session a run under DC and, the flag switched, a run
\* under AC both returned a bundle
C19_Witness ==
    /\ Len(run_log) = 2
    /\ run_log[1].motor_type = "DC" /\ ~run_log[1].call.raised
    /\ run_log[2].motor_type = "AC" /\ ~run_log[2].call.raised
    /\ "back_emf" \in DOMAIN run_log[1].call.results
    /\ "slip" \in DOMAIN run_log[2].call.results

\* a parameter the run's engine divides by is zero: the armature or the
\* field resistance (DC), the pole count once int() has cut its fraction,
\* or the magnetizing current (AC)
ZeroDivisor(run) ==
    IF run.motor_type = "DC"
    THEN \/ IsZero(ValueIn(run.params, "armature_resistance", Dec(15, 1)))
         \/ IsZero(ValueIn(run.params, "field_resistance", Num(100)))
    ELSE \/ /\ Lt(ValueIn(run.params, "poles", Num(4)), Num(1))
            /\ Gt(ValueIn(run.params, "poles", Num(4)), Num(-1))
         \/ IsZero(ValueIn(run.params, "magnetizing_current", Num(3)))

\* C24: divisions by a parameter are unguarded.  A run whose engine divides
\* by a zero parameter raises inside the engine; the run shows one
\* "Simulation Error" box and leaves the history as it was.  A run with
\* non-zero divisors, a first run or one that follows a failed run, gets a
\* bundle from the engine, and where the loss chart can be drawn it
\* completes and appends one entry.
C24_UnguardedDivisions ==
    [][RunStep =>
         IF ZeroDivisor(ThisRun)
         THEN /\ ThisRun.call.raised
              /\ ThisRun.call.exc = "ZeroDivisionError"
              /\ ~ThisRun.completed
              /\ dialog'.kind = "error" /\ dialog'.title = "Simulation Error"
              /\ simulation_history' = simulation_history
         ELSE /\ ~ThisRun.call.raised
              /\ update_visualizations(ThisRun.call.results) = {"ok"}
                    => ThisRun.completed /\ OneAppended /\ dialog'.kind = "none"]_vars

\* C24 witness: an AC run with 0.5 poles raised and stored nothing, and the
\* run after it, with 4 poles again, completed and appended the first entry
C24_Witness ==
    /\ Len(run_log) = 2
    /\ run_log[1].motor_type = "AC"
    /\ run_log[1].params["poles"] = NumText(Dec(5, 1))
    /\ run_log[1].call.raised
    /\ run_log[2].motor_type = "AC"
    /\ run_log[2].params["poles"] = NumText(Num(4))
    /\ run_log[2].completed
    /\ Len(simulation_history) = 1

----------------------------------------------------------------------------
(* Properties of the report and the rating (checked under SpecReports).    *)

\* the bundle of the file, which the report shows
FileBundle == saved_file.data[1]

\* the step shows the report of the file's bundle
ReportStep == LoadsSavedFile /\ results_text'.kind = "report"

\* x is y or more (never so for a nan)
AtLeast(x, y) == x = y \/ Gt(x, y)

\* the points of x in a table of inclusive lower bounds, best first
PointsFrom(x, table, else) ==
    IF \E n \in DOMAIN table : AtLeast(x, table[n][1])
    THEN table[CHOOSE n \in DOMAIN table :
                  /\ AtLeast(x, table[n][1])
                  /\ \A k \in 1..(n - 1) : ~AtLeast(x, table[k][1])][2]
    ELSE else

\* the points of x in a table of strict upper bounds, best first
PointsBelow(x, table, else) ==
    IF \E n \in DOMAIN table : Lt(x, table[n][1])
    THEN table[CHOOSE n \in DOMAIN table :
                  /\ Lt(x, table[n][1])
                  /\ \A k \in 1..(n - 1) : ~Lt(x, table[k][1])][2]
    ELSE else

EfficiencyTable == << <<Num(90), 40>>, <<Num(80), 35>>, <<Num(70), 25>>, <<Num(60), 15>> >>

PowerFactorTable == << <<Dec(95, 2), 30>>, <<Dec(85, 2), 25>>, <<Dec(75, 2), 15>> >>

ThermalTable == << <<Dec(70, 2), 30>>, <<Dec(85, 2), 20>>, <<Num(1), 10>> >>

\* the limit of the class typed, by the claim's table
ClassLimit(text) ==
    IF text \in {"A", "a"} THEN Num(105)
    ELSE IF text \in {"B", "b"} THEN Num(130)
    ELSE IF text \in {"H", "h"} THEN Num(180)
    ELSE Num(155)

\* C14: the score shown is the sum of three lookups: efficiency >= 90 gives
\* 40, >= 80 gives 35, >= 70 gives 25, >= 60 gives 15, else 5; power factor
\* >= 0.95 gives 30, >= 0.85 gives 25, >= 0.75 gives 15, else 5; the ratio
\* operating_temp / limit < 0.70 gives 30, < 0.85 gives 20, < 1.00 gives 10,
\* else 0; and efficiency 92, power factor 0.97, ratio 0.5 score 100.
C14_ScoreTables ==
    [][ReportStep =>
        LET ratio == DivNZ(FileBundle.operating_temp,
                           ClassLimit(param_vars["insulation_class"].s))
        IN  /\ results_text'.rating.score =
                  PointsFrom(FileBundle.efficiency, EfficiencyTable, 5)
                  + PointsFrom(FileBundle.power_factor, PowerFactorTable, 5)
                  + PointsBelow(ratio, ThermalTable, 0)
            /\ (FileBundle.efficiency = Num(92) /\ FileBundle.power_factor = Dec(97, 2)
                  /\ ratio = Dec(5, 1))
                 => results_text'.rating.score = 100]_vars

\* C14 witness: the report of a bundle with efficiency exactly 90, power
\* factor exactly 0.95 and operating temperature at 0.85 of the limit of
\* class H (typed in lower case) shows 40 + 30 + 10 = 80 points
C14_Witness ==
    /\ results_text.kind = "report"
    /\ FileBundle.efficiency = Num(90)
    /\ FileBundle.power_factor = Dec(95, 2)
    /\ FileBundle.operating_temp = Num(153)
    /\ param_vars["insulation_class"].s = "h"
    /\ results_text.limit = Num(180)
    /\ results_text.rating.score = 80

\* the grades, worst first
GradeRank(grade) ==
    CASE grade = "D (Poor)" -> 1
      [] grade = "C (Acceptable)" -> 2
      [] grade = "B (Good)" -> 3
      [] grade = "A (Very Good)" -> 4
      [] grade = "A+ (Excellent)" -> 5

\* the assessment that goes with a grade
AssessmentOf(grade) ==
    CASE grade = "D (Poor)" -> "Needs improvement"
      [] grade = "C (Acceptable)" -> "Acceptable performance"
      [] grade = "B (Good)" -> "Good performance"
      [] grade = "A (Very Good)" -> "Very good performance"
      [] grade = "A+ (Excellent)" -> "Outstanding performance"

\* C15: the grade shown follows from the score shown alone: A+ from 90, A
\* from 80, B from 70, C from 60, D below; each grade comes with its one
\* assessment; and over all scores 0..100 a higher score never has a lower
\* grade.
C15_GradeOfScore ==
    [][ReportStep =>
        LET rating == results_text'.rating
        IN  /\ GradeRank(rating.grade) =
                  1 + Cardinality({b \in {60, 70, 80, 90} : rating.score >= b})
            /\ rating.assessment = AssessmentOf(rating.grade)
            /\ \A a \in 0..100 : \A b \in a..100 :
                  GradeRank(determine_grade(a).grade) <= GradeRank(determine_grade(b).grade)]_vars

\* C15 witness: a report shows exactly 90 points, the first A+, for
\* efficiency 92, power factor 0.97 and a temperature ratio of 0.7
C15_Witness ==
    /\ results_text.kind = "report"
    /\ FileBundle.efficiency = Num(92)
    /\ FileBundle.power_factor = Dec(97, 2)
    /\ results_text.rating.score = 90
    /\ results_text.rating.grade = "A+ (Excellent)"

\* the thermal status by the claim's limit
StatusUnder(temp, limit) ==
    IF Lt(temp, Mul(limit, Dec(8, 1))) THEN "Safe"
    ELSE IF Lt(temp, limit) THEN "Caution"
    ELSE "Overheating!"

\* C16: the limit the report shows and judges the operating temperature by
\* is 105 for class A, 130 for B, 155 for F, 180 for H, in either case of
\* the letter, and 155 for any other text; the rating's thermal points are
\* those of the ratio to that same limit.
C16_InsulationLimit ==
    [][ReportStep =>
        LET limit == ClassLimit(param_vars["insulation_class"].s)
        IN  /\ results_text'.limit = limit
            /\ results_text'.thermal_status = StatusUnder(FileBundle.operating_temp, limit)
            /\ results_text'.rating.score
                  - PointsFrom(FileBundle.efficiency, EfficiencyTable, 5)
                  - PointsFrom(FileBundle.power_factor, PowerFactorTable, 5)
               = PointsBelow(DivNZ(FileBundle.operating_temp, limit), ThermalTable, 0)]_vars

\* C16 witness: with class "b" typed, the report of a bundle at 110.5
\* degrees shows the limit 130 and "Caution"
C16_Witness ==
    /\ results_text.kind = "report"
    /\ param_vars["insulation_class"].s = "b"
    /\ FileBundle.operating_temp = Dec(1105, 1)
    /\ results_text.limit = Num(130)
    /\ results_text.thermal_status = "Caution"

----------------------------------------------------------------------------
(* Properties of repeated displays (checked under SpecDisplays).           *)

\* the keys a rating or a class recorded in a bundle would have
RatingKeys == {"rating", "score", "grade", "assessment", "insulation_class", "temp_limit"}

\* the thermal points of the file's bundle under a limit
ThermalPoints(limit) ==
    PointsBelow(DivNZ(FileBundle.operating_temp, limit), ThermalTable, 0)

\* C25: the rating shown is evaluated with the insulation class that the
\* parameter store holds when the bundle is displayed, and is kept out of
\* the bundle.  Each display of the file's bundle takes its thermal points
\* from the class typed then; the bundle holds no class and no rating and
\* the display leaves it as it was; so two displays in a row of the same
\* bundle differ in score by exactly the difference of the thermal points
\* under the two classes.
C25_RatingByCurrentClass ==
    [][ReportStep =>
        /\ results_text'.rating.score
              = PointsFrom(FileBundle.efficiency, EfficiencyTable, 5)
                + PointsFrom(FileBundle.power_factor, PowerFactorTable, 5)
                + ThermalPoints(ClassLimit(param_vars["insulation_class"].s))
        /\ DOMAIN FileBundle \cap RatingKeys = {}
        /\ saved_file' = saved_file
        /\ simulation_history' = simulation_history
        /\ results_text.kind = "report" =>
              results_text'.rating.score - results_text.rating.score
                 = ThermalPoints(ClassLimit(param_vars["insulation_class"].s))
                   - ThermalPoints(results_text.limit)]_vars

\* C25 witness: a bundle was displayed under class H (limit 180), class A
\* is typed now, and the same bundle displayed now gets another score and
\* another grade
C25_Witness ==
    /\ results_text.kind = "report"
    /\ results_text.limit = Num(180)
    /\ param_vars["insulation_class"].s = "A"
    /\ display_results(LoadSim(FileBundle)).text.rating.score # results_text.rating.score
    /\ display_results(LoadSim(FileBundle)).text.rating.grade # results_text.rating.grade

====
